---- MODULE Spec2Model ----
(***************************************************************************)
(* A model of the product lookup engine (PlytixLookup), its result cache,  *)
(* the relationship hydrator (hydrateRelationships) and the hierarchy      *)
(* resolver (hydrateHierarchy) of plytix-mcp.                              *)
(*                                                                         *)
(* Strings are sequences of one-character strings.  JavaScript values     *)
(* held in loosely typed records are tagged: Str(s), Num(n), Undefined.    *)
(* Confidences are exact rationals [n, d] in lowest terms.                 *)
(***************************************************************************)
EXTENDS Integers, Sequences, FiniteSets, TLC

VARIABLES
    cfg,        \* PlytixLookup.cfg and searchFields, fixed at construction
    cache,      \* PlytixLookup.cache: cache key -> CacheEntry
    now,        \* Date.now(), in clock ticks
    calls,      \* per caller: the findByIdentifier / findProducts invocation
    lookups,    \* number of lookup invocations started so far
    callers,    \* the callers that may invoke the lookup engine
    repoMode,   \* "free": any answer per request; "fixed": answers follow repoTable
    repoTable,  \* the fixed repository: request kind -> answer
    hyd,        \* the hydration invocation: hydrateRelationships or hydrateHierarchy
    pure        \* the last call of a function that keeps no state, with its result

vars == <<cfg, cache, now, calls, lookups, callers, repoMode, repoTable, hyd, pure>>

lookupVars == <<cfg, cache, now, calls, lookups, callers, repoMode, repoTable>>

-----------------------------------------------------------------------------
(* JavaScript values *)

Str(s) == [t |-> "string", v |-> s]

Num(n) == [t |-> "number", v |-> <<n>>]

Undefined == [t |-> "undefined", v |-> <<>>]

IsString(x) == x.t = "string"

\* JavaScript truthiness of a string-or-undefined value
Truthy(x) == x.t = "string" /\ x.v # <<>>

-----------------------------------------------------------------------------
(* Characters *)

Digits == {"0", "1", "2", "3", "4", "5", "6", "7", "8", "9"}

UpperLetters == {"A", "B", "C", "D", "E", "F", "G", "H", "I", "J", "K", "L", "M",
                 "N", "O", "P", "Q", "R", "S", "T", "U", "V", "W", "X", "Y", "Z"}

LowerLetters == {"a", "b", "c", "d", "e", "f", "g", "h", "i", "j", "k", "l", "m",
                 "n", "o", "p", "q", "r", "s", "t", "u", "v", "w", "x", "y", "z"}

UpperOf == [c \in LowerLetters |->
    CASE c = "a" -> "A" [] c = "b" -> "B" [] c = "c" -> "C" [] c = "d" -> "D"
      [] c = "e" -> "E" [] c = "f" -> "F" [] c = "g" -> "G" [] c = "h" -> "H"
      [] c = "i" -> "I" [] c = "j" -> "J" [] c = "k" -> "K" [] c = "l" -> "L"
      [] c = "m" -> "M" [] c = "n" -> "N" [] c = "o" -> "O" [] c = "p" -> "P"
      [] c = "q" -> "Q" [] c = "r" -> "R" [] c = "s" -> "S" [] c = "t" -> "T"
      [] c = "u" -> "U" [] c = "v" -> "V" [] c = "w" -> "W" [] c = "x" -> "X"
      [] c = "y" -> "Y" [] c = "z" -> "Z"]

IsLetter(c) == c \in UpperLetters \cup LowerLetters

IsDigit(c) == c \in Digits

IsAlnum(c) == IsLetter(c) \/ IsDigit(c)

IsHexDigit(c) == c \in Digits \cup {"a", "b", "c", "d", "e", "f", "A", "B", "C", "D", "E", "F"}

IsSpace(c) == c \in {" ", "\t", "\n"}

toUpperCase(s) == [i \in 1..Len(s) |-> IF s[i] \in LowerLetters THEN UpperOf[s[i]] ELSE s[i]]

startsWith(s, p) == Len(p) <= Len(s) /\ SubSeq(s, 1, Len(p)) = p

includes(s, p) == \E i \in 0..(Len(s) - Len(p)) : SubSeq(s, i + 1, i + Len(p)) = p

RECURSIVE trim(_)
trim(s) ==
    IF s = <<>> THEN s
    ELSE IF IsSpace(s[1]) THEN trim(Tail(s))
    ELSE IF IsSpace(s[Len(s)]) THEN trim(SubSeq(s, 1, Len(s) - 1))
    ELSE s

\* identifier.split(/[^A-Za-z0-9]+/).filter(Boolean): the maximal alphanumeric runs
RECURSIVE SplitTokens(_, _, _)
SplitTokens(s, cur, acc) ==
    IF s = <<>> THEN (IF cur = <<>> THEN acc ELSE Append(acc, cur))
    ELSE IF IsAlnum(s[1]) THEN SplitTokens(Tail(s), Append(cur, s[1]), acc)
    ELSE SplitTokens(Tail(s), <<>>, IF cur = <<>> THEN acc ELSE Append(acc, cur))

Tokens(s) == SplitTokens(s, <<>>, <<>>)

-----------------------------------------------------------------------------
(* Rational numbers: the confidences *)

RECURSIVE GCD(_, _)
GCD(a, b) == IF b = 0 THEN a ELSE GCD(b, a % b)

Rat(n, d) == LET g == GCD(n, d) IN [n |-> n \div g, d |-> d \div g]

RatLess(a, b) == a.n * b.d < b.n * a.d

RatLeq(a, b) == a.n * b.d <= b.n * a.d

\* a - b >= c
RatDiffGeq(a, b, c) == (a.n * b.d - b.n * a.d) * c.d >= c.n * a.d * b.d

\* a - b > c
RatDiffGt(a, b, c) == (a.n * b.d - b.n * a.d) * c.d > c.n * a.d * b.d

Zero == Rat(0, 1)

One == Rat(1, 1)

-----------------------------------------------------------------------------
(* identifier.ts *)

normalize(value) == toUpperCase(SelectSeq(value, IsAlnum))

SimilarityOfInverted(normalizedA, normalizedB) ==
    IF normalizedA = <<>> \/ normalizedB = <<>> THEN Zero
    ELSE IF normalizedA = normalizedB THEN One
    ELSE IF Len(normalizedA) > Len(normalizedB)
    THEN (IF includes(normalizedA, normalizedB)
          THEN Rat(Len(normalizedA), Len(normalizedB)) ELSE Zero)
    ELSE (IF includes(normalizedB, normalizedA)
          THEN Rat(Len(normalizedB), Len(normalizedA)) ELSE Zero)

\* lines 84-96, on the two normalized strings
SimilarityOf(normalizedA, normalizedB) ==
    IF normalizedA = <<>> \/ normalizedB = <<>> THEN Zero
    ELSE IF normalizedA = normalizedB THEN One
    ELSE IF Len(normalizedA) > Len(normalizedB)
    THEN (IF includes(normalizedA, normalizedB)
          THEN Rat(Len(normalizedB), Len(normalizedA)) ELSE Zero)
    ELSE (IF includes(normalizedB, normalizedA)
          THEN Rat(Len(normalizedA), Len(normalizedB)) ELSE Zero)

calculateSimilarity(a, b) == SimilarityOf(normalize(a), normalize(b))

\* /^[A-Z0-9]+(?:-[A-Z0-9]+)+$/i
MatchesDashedGroups(s) ==
    /\ s # <<>>
    /\ \A i \in 1..Len(s) : IsAlnum(s[i]) \/ s[i] = "-"
    /\ \E i \in 1..Len(s) : s[i] = "-"
    /\ s[1] # "-" /\ s[Len(s)] # "-"
    /\ \A i \in 1..(Len(s) - 1) : ~(s[i] = "-" /\ s[i + 1] = "-")

\* /^[A-Z]{3,}-/i
HasVendorPrefix(s) ==
    \E k \in 3..(Len(s) - 1) : (\A i \in 1..k : IsLetter(s[i])) /\ s[k + 1] = "-"

\* /^[A-Z0-9][A-Z0-9._-]*$/i
MatchesSkuShape(s) ==
    /\ s # <<>>
    /\ IsAlnum(s[1])
    /\ \A i \in 2..Len(s) : IsAlnum(s[i]) \/ s[i] \in {".", "_", "-"}

detectIdentifierTypeSkuBeforeMpn(raw) ==
    LET s == trim(raw) IN
    IF s = <<>> THEN [type |-> "unknown", confidence |-> Zero]
    ELSE IF Len(s) = 24 /\ \A i \in 1..Len(s) : IsHexDigit(s[i])
        THEN [type |-> "id", confidence |-> One]
    ELSE IF Len(s) \in {8, 12, 13, 14} /\ \A i \in 1..Len(s) : IsDigit(s[i])
        THEN [type |-> "gtin", confidence |-> Rat(95, 100)]
    ELSE IF \E i \in 1..Len(s) : IsSpace(s[i])
        THEN [type |-> "label", confidence |-> Rat(9, 10)]
    ELSE IF MatchesSkuShape(s)
        THEN [type |-> "sku", confidence |-> Rat(7, 10)]
    ELSE IF MatchesDashedGroups(s) /\ ~HasVendorPrefix(s)
        THEN [type |-> "mpn", confidence |-> Rat(8, 10)]
    ELSE [type |-> "unknown", confidence |-> Zero]

detectIdentifierTypeMnoBeforeSku(raw) ==
    LET s == trim(raw) IN
    IF s = <<>> THEN [type |-> "unknown", confidence |-> Zero]
    ELSE IF Len(s) = 24 /\ \A i \in 1..Len(s) : IsHexDigit(s[i])
        THEN [type |-> "id", confidence |-> One]
    ELSE IF Len(s) \in {8, 12, 13, 14} /\ \A i \in 1..Len(s) : IsDigit(s[i])
        THEN [type |-> "gtin", confidence |-> Rat(95, 100)]
    ELSE IF \E i \in 1..Len(s) : IsSpace(s[i])
        THEN [type |-> "label", confidence |-> Rat(9, 10)]
    ELSE IF MatchesDashedGroups(s) /\ ~HasVendorPrefix(s)
        THEN [type |-> "mpn", confidence |-> Rat(8, 10)]
    ELSE IF \A i \in 1..Len(s) : IsAlnum(s[i])
        THEN [type |-> "mno", confidence |-> Rat(6, 10)]
    ELSE IF MatchesSkuShape(s)
        THEN [type |-> "sku", confidence |-> Rat(7, 10)]
    ELSE [type |-> "unknown", confidence |-> Zero]

detectIdentifierType(raw) ==
    LET s == trim(raw) IN
    IF s = <<>> THEN [type |-> "unknown", confidence |-> Zero]
    ELSE IF Len(s) = 24 /\ \A i \in 1..Len(s) : IsHexDigit(s[i])
        THEN [type |-> "id", confidence |-> One]
    ELSE IF Len(s) \in {8, 12, 13, 14} /\ \A i \in 1..Len(s) : IsDigit(s[i])
        THEN [type |-> "gtin", confidence |-> Rat(95, 100)]
    ELSE IF \E i \in 1..Len(s) : IsSpace(s[i])
        THEN [type |-> "label", confidence |-> Rat(9, 10)]
    ELSE IF MatchesDashedGroups(s) /\ ~HasVendorPrefix(s)
        THEN [type |-> "mpn", confidence |-> Rat(8, 10)]
    ELSE IF MatchesSkuShape(s)
        THEN [type |-> "sku", confidence |-> Rat(7, 10)]
    ELSE IF \A i \in 1..Len(s) : IsAlnum(s[i])
        THEN [type |-> "mno", confidence |-> Rat(6, 10)]
    ELSE [type |-> "unknown", confidence |-> Zero]

-----------------------------------------------------------------------------
(* Field names and catalog records *)

\* A field name is the sequence of its dot-separated parts: "attributes.mpn"
\* is <<"attributes", "mpn">>.
RECURSIVE JoinDot(_)
JoinDot(path) ==
    IF Len(path) = 0 THEN ""
    ELSE IF Len(path) = 1 THEN path[1]
    ELSE path[1] \o "." \o JoinDot(Tail(path))

\* `${field}_eq` and the like: the suffix lands on the last part
WithSuffix(path, suffix) == [path EXCEPT ![Len(path)] = @ \o suffix]

\* field.startsWith('attributes.')
IsAttributeField(path) == Len(path) >= 2 /\ path[1] = "attributes"

AttrValue(record, key) ==
    IF \E i \in 1..Len(record.attributes) : record.attributes[i].key = key
    THEN LET i == CHOOSE j \in 1..Len(record.attributes) : record.attributes[j].key = key
         IN  record.attributes[i].value
    ELSE Undefined

TopLevel(record, part) ==
    CASE part = "id"    -> Str(record.id)
      [] part = "sku"   -> record.sku
      [] part = "label" -> record.label
      [] part = "gtin"  -> record.gtin
      [] OTHER          -> Undefined

getFieldValue(record, path) ==
    LET value ==
            IF Len(path) = 1 THEN TopLevel(record, path[1])
            ELSE IF Len(path) = 2 /\ path[1] = "attributes" THEN AttrValue(record, path[2])
            ELSE Undefined
    IN  IF IsString(value) THEN value ELSE Undefined

-----------------------------------------------------------------------------
(* Scoring: PlytixLookup.scoreMatch *)

StandardFields == << <<"sku">>, <<"label">>, <<"gtin">> >>

\* the candidate values, in the order the code collects them
Candidates(record, matchedField) ==
    LET std == SelectSeq([i \in 1..Len(StandardFields) |-> getFieldValue(record, StandardFields[i])],
                         Truthy)
        mf  == IF matchedField = <<>> THEN <<>>
               ELSE SelectSeq(<<getFieldValue(record, matchedField)>>, Truthy)
        att == SelectSeq([i \in 1..Len(record.attributes) |-> record.attributes[i].value],
                         IsString)
    IN  [i \in 1..Len(std \o mf \o att) |-> (std \o mf \o att)[i].v]

RaiseToLatest(best, applies, confidence, reason) ==
    IF applies THEN [confidence |-> confidence, reason |-> reason] ELSE best

\* one `if (... && bestConfidence < c) { bestConfidence = c; bestReason = r }`
Raise(best, applies, confidence, reason) ==
    IF applies /\ RatLess(best.confidence, confidence)
    THEN [confidence |-> confidence, reason |-> reason]
    ELSE best

\* the body of the loop for a value that is not the normalized identifier:
\* prefix, then substring, then similarity above 0.6
ScoreCandidate(idNorm, valueNorm, similarity, best) ==
    Raise(Raise(Raise(best,
                      startsWith(valueNorm, idNorm) \/ startsWith(idNorm, valueNorm),
                      Rat(9, 10), "prefix_match"),
                includes(valueNorm, idNorm) \/ includes(idNorm, valueNorm),
                Rat(75, 100), "substring_match"),
          RatLess(Rat(6, 10), similarity), similarity, "similarity_match")

RECURSIVE ScoreLoop(_, _, _, _)
ScoreLoop(idNorm, identifier, candidates, best) ==
    IF candidates = <<>>
    THEN [confidence |-> IF best.confidence = Zero THEN Rat(1, 10) ELSE best.confidence,
          reason |-> best.reason]
    ELSE IF normalize(Head(candidates)) = idNorm
    THEN [confidence |-> One, reason |-> "normalized_exact_match"]
    ELSE ScoreLoop(idNorm, identifier, Tail(candidates),
                   ScoreCandidate(idNorm, normalize(Head(candidates)),
                                  calculateSimilarity(identifier, Head(candidates)), best))

scoreMatch(identifier, record, matchedField) ==
    ScoreLoop(normalize(identifier), identifier, Candidates(record, matchedField),
              [confidence |-> Zero, reason |-> "no_match"])

\* the Match built for one returned row (executeSearch's rows.map)
ToMatch(identifier, record, tag) ==
    LET score == scoreMatch(identifier, record, tag) IN
    [id |-> record.id, sku |-> record.sku, label |-> record.label,
     gtin |-> getFieldValue(record, <<"gtin">>), matchedField |-> JoinDot(tag),
     confidence |-> score.confidence, reason |-> score.reason, raw |-> record]

ScoreRows(identifier, rows, tag) == [i \in 1..Len(rows) |-> ToMatch(identifier, rows[i], tag)]

-----------------------------------------------------------------------------
(* Ranking and selection: findByIdentifier, "Sort by confidence and select best" *)

\* insert m after every entry whose confidence is not smaller: the stable
\* order of matches.sort((a, b) => b.confidence - a.confidence)
RECURSIVE InsertByConfidence(_, _)
InsertByConfidence(sorted, m) ==
    IF sorted = <<>> THEN <<m>>
    ELSE IF RatLess(Head(sorted).confidence, m.confidence) THEN <<m>> \o sorted
    ELSE <<Head(sorted)>> \o InsertByConfidence(Tail(sorted), m)

RECURSIVE SortFrom(_, _)
SortFrom(ms, acc) ==
    IF ms = <<>> THEN acc ELSE SortFrom(Tail(ms), InsertByConfidence(acc, Head(ms)))

SortKeepingOrder(ms) == ms

SortByConfidence(ms) == SortFrom(ms, <<>>)

\* the margin a top match needs over the second one
SelectionMargin == Rat(15, 100)

NoMatch == [id |-> <<>>]

SelectStrictMargin(matches) ==
    IF matches # <<>>
       /\ (Len(matches) = 1
           \/ RatDiffGt(matches[1].confidence, matches[2].confidence, SelectionMargin))
    THEN matches[1]
    ELSE NoMatch

\* selected: matches[0] when it is alone or leads by the margin, else undefined
SelectBest(matches) ==
    IF matches # <<>>
       /\ (Len(matches) = 1
           \/ RatDiffGeq(matches[1].confidence, matches[2].confidence, SelectionMargin))
    THEN matches[1]
    ELSE NoMatch


-----------------------------------------------------------------------------
(* Bounds and inputs of the lookup engine *)

MaxLookups == 2     \* lookup invocations per behaviour

MaxTime == 2        \* last clock tick

CacheTtlTicks == 1  \* cfg.cacheTtlMs, in clock ticks

CacheCapacity == 100

MaxAttributes == 50

AllCallers == {"c1", "c2"}

DEFAULT_SEARCH_FIELDS == << <<"sku">>, <<"label">>, <<"gtin">> >>

\* the searchFields configurations tried: the default and one with custom attributes
SearchFieldConfigs ==
    { DEFAULT_SEARCH_FIELDS,
      << <<"sku">>, <<"attributes", "mpn">>, <<"attributes", "model_no">> >> }

\* catalog records the repository may return
Rec(id, sku, attrs) ==
    [id |-> id, sku |-> sku, label |-> Undefined, gtin |-> Undefined, attributes |-> attrs]

\* scored against "AB-12": R1 0.9 (prefix), R2 1.0 (exact), R3 0.75 (substring),
\* R4 0.1 (nothing), R5 0.8 (similarity 4/5)
R1 == Rec(<<"p", "1">>, Str(<<"a", "b", "1">>), <<>>)

R2 == Rec(<<"p", "2">>, Str(<<"a", "b", ".", "1", "2">>), <<>>)

R3 == Rec(<<"p", "3">>, Undefined,
          <<[key |-> "mpn", value |-> Str(<<"X", "X", "A", "B", "1", "2">>)],
            [key |-> "weight", value |-> Num(7)]>>)

R4 == Rec(<<"p", "4">>, Str(<<"Z", "Z">>), <<>>)

R5 == Rec(<<"p", "5">>, Str(<<"X", "A", "B", "1", "2">>), <<>>)

\* the pages of rows the repository may answer each kind of search with
ExactPages == { <<>>, <<R2>>, <<R3, R1>> }

TextPages == { <<>>, <<R1, R2>> }

BroadPages == { <<>>, <<R4, R5>> }

MultiPages == { <<>>, <<R4, R5>> }

\* the identifier looked up: "AB-12"
Identifiers == { <<"A", "B", "-", "1", "2">> }

ExplicitTypes == {"undefined", "id"}

Limits == {2}


-----------------------------------------------------------------------------
(* Result cache: getCacheKey, getFromCache, setCache *)

EmptyMap == [k \in {} |-> 0]

MapPut(m, k, v) == [x \in DOMAIN m \cup {k} |-> IF x = k THEN v ELSE m[x]]

MapDrop(m, ks) == [x \in DOMAIN m \ ks |-> m[x]]

NoResult == [selected |-> NoMatch, matches |-> <<>>, plan |-> <<>>]

NoEntry == [result |-> NoResult, timestamp |-> 0, ttl |-> 0]

\* the characters of a string, joined
RECURSIVE Text(_)
Text(s) == IF s = <<>> THEN "" ELSE Head(s) \o Text(Tail(s))

getCacheKeyIgnoringType(identifier, explicit, limit) ==
    "lookup:" \o Text(identifier) \o ":auto:" \o ToString(limit)

\* `lookup:${identifier}:${explicit ?? 'auto'}:${limit ?? this.cfg.pageSize}`
getCacheKey(identifier, explicit, limit) ==
    "lookup:" \o Text(identifier) \o ":"
        \o (IF explicit = "undefined" THEN "auto" ELSE explicit) \o ":" \o ToString(limit)

Expired(entry, t) == t > entry.timestamp + entry.ttl

getFromCacheNoExpiry(c, m, key, t) ==
    IF ~c.cacheEnabled \/ key \notin DOMAIN m
    THEN [hit |-> FALSE, entry |-> NoEntry, cache |-> m]
    ELSE [hit |-> TRUE, entry |-> m[key], cache |-> m]

\* the result served (hit) and the cache as the read leaves it
getFromCache(c, m, key, t) ==
    IF ~c.cacheEnabled THEN [hit |-> FALSE, entry |-> NoEntry, cache |-> m]
    ELSE IF key \notin DOMAIN m THEN [hit |-> FALSE, entry |-> NoEntry, cache |-> m]
    ELSE IF Expired(m[key], t)
        THEN [hit |-> FALSE, entry |-> NoEntry, cache |-> MapDrop(m, {key})]
    ELSE [hit |-> TRUE, entry |-> m[key], cache |-> m]

setCacheKeepingFirst(c, m, key, result, t) ==
    IF ~c.cacheEnabled THEN m
    ELSE IF key \in DOMAIN m /\ ~Expired(m[key], t) THEN m
    ELSE MapPut(m, key, [result |-> result, timestamp |-> t, ttl |-> c.cacheTtlMs])

setCacheCapped(c, m, key, result, t) ==
    IF ~c.cacheEnabled THEN m
    ELSE LET put == MapPut(m, key, [result |-> result, timestamp |-> t, ttl |-> c.cacheTtlMs])
             swept == MapDrop(put, {k \in DOMAIN put : Expired(put[k], t)})
         IN  IF Cardinality(DOMAIN put) <= CacheCapacity THEN put
             ELSE IF Cardinality(DOMAIN swept) <= CacheCapacity THEN swept
             ELSE MapDrop(swept, {CHOOSE k \in DOMAIN swept \ {key} :
                                    \A j \in DOMAIN swept : swept[k].timestamp <= swept[j].timestamp})

setCache(c, m, key, result, t) ==
    IF ~c.cacheEnabled THEN m
    ELSE LET put == MapPut(m, key, [result |-> result, timestamp |-> t, ttl |-> c.cacheTtlMs])
         IN  IF Cardinality(DOMAIN put) > CacheCapacity
             THEN MapDrop(put, {k \in DOMAIN put : Expired(put[k], t)})
             ELSE put

-----------------------------------------------------------------------------
(* findByIdentifier: the staged search, one operator per stretch of code     *)
(* between two awaits                                                        *)

NoRequest ==
    [kind |-> "none", tag |-> <<>>, id |-> <<>>, filters |-> <<>>,
     attributes |-> <<>>, page_size |-> 0]

NoCriteria ==
    [sku |-> Undefined, gtin |-> Undefined, label |-> Undefined, mpn |-> Undefined,
     mno |-> Undefined, fuzzySearch |-> Undefined]

IdleCall ==
    [pc |-> "idle", op |-> "none", identifier |-> <<>>, explicitType |-> "undefined",
     limit |-> 0, cacheKey |-> "", type |-> "unknown", plan |-> <<>>, matches |-> <<>>,
     stage |-> "none", exactSearches |-> <<>>, exactIdx |-> 0, pending |-> NoRequest,
     issued |-> <<>>, failed |-> <<>>, result |-> NoResult, fromCache |-> FALSE,
     served |-> NoEntry, servedAt |-> 0, evicted |-> FALSE, criteria |-> NoCriteria]

\* no stateless function has been called yet
NoCall == [fn |-> "none"]

RECURSIVE Dedupe(_, _)
Dedupe(seq, acc) ==
    IF seq = <<>> THEN acc
    ELSE Dedupe(Tail(seq),
                IF \E i \in 1..Len(acc) : acc[i] = Head(seq) THEN acc ELSE Append(acc, Head(seq)))

FirstN(seq, n) == SubSeq(seq, 1, IF Len(seq) < n THEN Len(seq) ELSE n)

Filter(field, operator, value) == [field |-> field, operator |-> operator, value |-> value]

\* executeSearch up to its await: the tag goes on the plan, the request out
IssueSearch(st, filters, tag) ==
    LET req == [kind |-> "searchProducts", tag |-> tag, id |-> <<>>, filters |-> filters,
                attributes |-> FirstN(Dedupe(cfg.searchFields, <<>>), MaxAttributes),
                page_size |-> st.limit]
    IN  [st EXCEPT !.pc = "await", !.plan = Append(@, JoinDot(tag)),
                   !.pending = req, !.issued = Append(@, req)]

CatchStageRethrow(st, tag) ==
    [st EXCEPT !.pc = "thrown", !.pending = NoRequest, !.failed = Append(@, JoinDot(tag))]

\* catch { plan.push(`${tag}_failed`) }
CatchStage(st, tag) ==
    [st EXCEPT !.plan = Append(@, JoinDot(WithSuffix(tag, "_failed"))),
               !.failed = Append(@, JoinDot(tag))]

\* lines 328-356: the exact searches the resolved type allows, in searchFields order
RECURSIVE ExactSearches(_, _, _)
ExactSearches(fields, type, identifier) ==
    IF fields = <<>> THEN <<>>
    ELSE
        LET field == Head(fields)
            rest  == ExactSearches(Tail(fields), type, identifier)
        IN  IF field = <<"sku">> /\ type \in {"sku", "unknown"}
            THEN << [filters |-> << <<Filter(<<field>>, "eq", identifier)>> >>,
                     tag |-> <<"sku_eq">>] >> \o rest
            ELSE IF field = <<"gtin">> /\ type = "gtin"
            THEN << [filters |-> << <<Filter(<<field>>, "eq", identifier)>> >>,
                     tag |-> <<"gtin_eq">>] >> \o rest
            ELSE IF field = <<"label">> /\ type = "label"
            THEN << [filters |-> << [i \in 1..Len(Tokens(identifier)) |->
                                        Filter(<<field>>, "like", Tokens(identifier)[i])] >>,
                     tag |-> <<"label_like_tokens">>] >> \o rest
            ELSE IF IsAttributeField(field) /\ type \in {"mpn", "mno", "unknown"}
            THEN << [filters |-> << <<Filter(<<field>>, "eq", identifier)>> >>,
                     tag |-> WithSuffix(field, "_eq")] >> \o rest
            ELSE rest

HighConfidenceNeverMet == Rat(101, 100)

\* results.some((m) => m.confidence >= 0.99)
HighConfidence == Rat(99, 100)

\* lines 404-412: sort, select, build the result
Finish(st) ==
    IF st.pc = "thrown" THEN st
    ELSE LET sorted == SortByConfidence(st.matches) IN
         [st EXCEPT !.pc = "done", !.stage = "finished", !.pending = NoRequest,
                    !.matches = sorted,
                    !.result = [selected |-> SelectBest(sorted),
                                matches |-> sorted, plan |-> st.plan]]

\* Strategy 4, lines 384-402
BroadStage(st) ==
    IF st.pc = "thrown" THEN st
    ELSE IF st.matches = <<>>
    THEN LET tokens     == Tokens(st.identifier)
             firstToken == IF tokens # <<>> THEN tokens[1] ELSE st.identifier
             firstFew   == FirstN(cfg.searchFields, 3)
         IN  IssueSearch([st EXCEPT !.stage = "broad"],
                         << [i \in 1..Len(firstFew) |-> Filter(<<firstFew[i]>>, "like", firstToken)] >>,
                         <<"broad_like_search">>)
    ELSE Finish(st)

TextStageAlways(st) ==
    IF st.pc = "thrown" THEN st
    ELSE IssueSearch([st EXCEPT !.stage = "text"],
                     << <<Filter(cfg.searchFields, "text_search", st.identifier)>> >>,
                     <<"text_search_multi">>)

\* Strategy 3, lines 371-382
TextStage(st) ==
    IF st.pc = "thrown" THEN st
    ELSE IF st.matches = <<>>
    THEN IssueSearch([st EXCEPT !.stage = "text"],
                     << <<Filter(cfg.searchFields, "text_search", st.identifier)>> >>,
                     <<"text_search_multi">>)
    ELSE BroadStage(st)

ExactStageAllAtOnce(st) ==
    IF st.pc = "thrown" THEN st
    ELSE IF st.exactIdx <= Len(st.exactSearches)
    THEN [IssueSearch([st EXCEPT !.stage = "exact"],
                      st.exactSearches[st.exactIdx].filters,
                      st.exactSearches[st.exactIdx].tag)
            EXCEPT !.issued = @ \o
                [i \in 1..(Len(st.exactSearches) - st.exactIdx) |->
                    [kind |-> "searchProducts", tag |-> st.exactSearches[st.exactIdx + i].tag,
                     id |-> <<>>, filters |-> st.exactSearches[st.exactIdx + i].filters,
                     attributes |-> FirstN(Dedupe(cfg.searchFields, <<>>), MaxAttributes),
                     page_size |-> st.limit]]]
    ELSE TextStage(st)

\* the loop over exactSearches, lines 358-369, entered at st.exactIdx
ExactStage(st) ==
    IF st.pc = "thrown" THEN st
    ELSE IF st.exactIdx <= Len(st.exactSearches)
    THEN IssueSearch([st EXCEPT !.stage = "exact"],
                     st.exactSearches[st.exactIdx].filters,
                     st.exactSearches[st.exactIdx].tag)
    ELSE TextStage(st)

\* Strategy 1 up to its await, lines 300-304; other types go on to the exact searches
DirectStage(st) ==
    IF st.type = "id"
    THEN LET req == [NoRequest EXCEPT !.kind = "getProduct", !.tag = <<"id">>,
                                      !.id = st.identifier]
         IN  [st EXCEPT !.pc = "await", !.stage = "direct",
                        !.plan = Append(@, "direct_id_lookup"),
                        !.pending = req, !.issued = Append(@, req)]
    ELSE ExactStage(st)

DirectHitThenText(st, record) ==
    LET match == [id |-> record.id, sku |-> record.sku, label |-> record.label,
                  gtin |-> getFieldValue(record, <<"gtin">>), matchedField |-> "id",
                  confidence |-> One, reason |-> "direct_id_lookup", raw |-> record]
    IN  IssueSearch([st EXCEPT !.stage = "text", !.matches = <<match>>],
                    << <<Filter(cfg.searchFields, "text_search", st.identifier)>> >>,
                    <<"text_search_multi">>)

\* lines 305-321: the record found by ID is the whole result
DirectHit(st, record) ==
    LET match == [id |-> record.id, sku |-> record.sku, label |-> record.label,
                  gtin |-> getFieldValue(record, <<"gtin">>), matchedField |-> "id",
                  confidence |-> One, reason |-> "direct_id_lookup", raw |-> record]
    IN  [st EXCEPT !.pc = "done", !.stage = "direct_hit", !.pending = NoRequest,
                   !.matches = <<match>>,
                   !.result = [selected |-> match, matches |-> <<match>>, plan |-> st.plan]]

AfterSearchMergingById(st, ok, tag, results) ==
    LET fresh == SelectSeq(results,
                           LAMBDA m : \A i \in 1..Len(st.matches) : st.matches[i].id # m.id)
    IN
    CASE st.stage = "exact" ->
            IF ok
            THEN (IF \E i \in 1..Len(results) : RatLeq(HighConfidence, results[i].confidence)
                  THEN TextStage([st EXCEPT !.matches = @ \o fresh])
                  ELSE ExactStage([st EXCEPT !.matches = @ \o fresh, !.exactIdx = @ + 1]))
            ELSE ExactStage([CatchStage(st, tag) EXCEPT !.exactIdx = @ + 1])
      [] st.stage = "text" ->
            BroadStage(IF ok THEN [st EXCEPT !.matches = @ \o fresh] ELSE CatchStage(st, tag))
      [] st.stage = "broad" ->
            Finish(IF ok THEN [st EXCEPT !.matches = @ \o fresh] ELSE CatchStage(st, tag))

\* the code after the await of executeSearch: results are the scored rows of an
\* answer that came, and a thrown error lands in the stage's catch
AfterSearch(st, ok, tag, results) ==
    CASE st.stage = "exact" ->
            IF ok
            THEN (IF \E i \in 1..Len(results) : RatLeq(HighConfidence, results[i].confidence)
                  THEN TextStage([st EXCEPT !.matches = @ \o results])
                  ELSE ExactStage([st EXCEPT !.matches = @ \o results, !.exactIdx = @ + 1]))
            ELSE ExactStage([CatchStage(st, tag) EXCEPT !.exactIdx = @ + 1])
      [] st.stage = "text" ->
            BroadStage(IF ok THEN [st EXCEPT !.matches = @ \o results] ELSE CatchStage(st, tag))
      [] st.stage = "broad" ->
            Finish(IF ok THEN [st EXCEPT !.matches = @ \o results] ELSE CatchStage(st, tag))

OnSettledEmptyIsFailure(st, answer) ==
    IF st.stage = "direct"
    THEN (IF answer.ok /\ answer.rows # <<>> THEN DirectHit(st, answer.rows[1])
          ELSE ExactStage(CatchStage(st, <<"direct_id_lookup">>)))
    ELSE AfterSearch(st, answer.ok, st.pending.tag,
                     ScoreRows(st.identifier, answer.rows, st.pending.tag))

\* the code that runs when the awaited repository call settles
OnSettled(st, answer) ==
    IF st.stage = "direct"
    THEN (IF ~answer.ok THEN ExactStage(CatchStage(st, <<"direct_id_lookup">>))
          ELSE IF answer.rows # <<>> THEN DirectHit(st, answer.rows[1])
          ELSE ExactStage(st))
    ELSE AfterSearch(st, answer.ok, st.pending.tag,
                     ScoreRows(st.identifier, answer.rows, st.pending.tag))

\* lines 262-265: detection, the resolved type, the first two plan entries
RECURSIVE JoinComma(_)
JoinComma(names) ==
    IF names = <<>> THEN ""
    ELSE IF Len(names) = 1 THEN names[1]
    ELSE names[1] \o "," \o JoinComma(Tail(names))

StartLookup(c, identifier, explicitType, limit, t) ==
    LET detection == detectIdentifierType(identifier)
        type == IF explicitType # "undefined" THEN explicitType ELSE detection.type
    IN  [IdleCall EXCEPT
            !.op = "findByIdentifier", !.identifier = identifier,
            !.explicitType = explicitType, !.limit = limit,
            !.cacheKey = getCacheKey(identifier, explicitType, limit),
            !.type = type, !.exactIdx = 1,
            !.exactSearches = ExactSearches(c.searchFields, type, identifier),
            !.plan = << "detected_type:" \o type \o "(" \o ToString(detection.confidence.n)
                            \o "/" \o ToString(detection.confidence.d) \o ")",
                        "search_fields:" \o JoinComma([i \in 1..Len(c.searchFields) |->
                                                        JoinDot(c.searchFields[i])]) >>]


-----------------------------------------------------------------------------
(* findProducts *)

\* the criteria tried: a SKU with a fuzzy term, nothing at all
CriteriaSet ==
    { [NoCriteria EXCEPT !.sku = Str(<<"X", "A", "B", "1", "2">>),
                         !.fuzzySearch = Str(<<"A", "B">>)],
      NoCriteria }

\* lines 434-458: one filter group per criterion given
ProductFilters(criteria) ==
    LET customAttrFields == SelectSeq(cfg.searchFields, IsAttributeField)
        tokens == IF Truthy(criteria.label) THEN Tokens(criteria.label.v) ELSE <<>>
    IN  (IF Truthy(criteria.sku)
         THEN << <<Filter(<< <<"sku">> >>, "eq", criteria.sku.v)>> >> ELSE <<>>)
     \o (IF Truthy(criteria.gtin)
         THEN << <<Filter(<< <<"gtin">> >>, "eq", criteria.gtin.v)>> >> ELSE <<>>)
     \o (IF Truthy(criteria.label)
         THEN << [i \in 1..Len(tokens) |-> Filter(<< <<"label">> >>, "like", tokens[i])] >>
         ELSE <<>>)
     \o (IF Truthy(criteria.mpn) /\ Len(customAttrFields) > 0
         THEN << <<Filter(<<customAttrFields[1]>>, "eq", criteria.mpn.v)>> >> ELSE <<>>)
     \o (IF Truthy(criteria.mno) /\ Len(customAttrFields) > 1
         THEN << <<Filter(<<customAttrFields[2]>>, "eq", criteria.mno.v)>> >> ELSE <<>>)
     \o (IF Truthy(criteria.fuzzySearch)
         THEN << <<Filter(cfg.searchFields, "text_search", criteria.fuzzySearch.v)>> >>
         ELSE <<>>)

\* lines 431-467: up to the await of searchProducts
StartProducts(criteria, limit, t) ==
    LET req == [kind |-> "searchProducts", tag |-> <<"multi_criteria">>, id |-> <<>>,
                filters |-> ProductFilters(criteria),
                attributes |-> FirstN(Dedupe(cfg.searchFields, <<>>), MaxAttributes),
                page_size |-> limit]
    IN  [IdleCall EXCEPT !.pc = "await", !.op = "findProducts", !.stage = "multi",
                         !.limit = limit, !.criteria = criteria,
                         !.plan = <<"multi_criteria_search">>,
                         !.pending = req, !.issued = <<req>>]

\* lines 469-488: the Match of one row
CriteriaMatch(criteria, record) ==
    LET bySku  == Truthy(criteria.sku) /\ record.sku = criteria.sku
        byGtin == Truthy(criteria.gtin) /\ getFieldValue(record, <<"gtin">>) = criteria.gtin
    IN  [id |-> record.id, sku |-> record.sku, label |-> record.label,
         gtin |-> getFieldValue(record, <<"gtin">>), matchedField |-> "multi_criteria",
         confidence |-> IF bySku \/ byGtin THEN Rat(9, 10) ELSE Rat(5, 10),
         reason |-> "multi_criteria_match", raw |-> record]

\* lines 469-495: the result, or the failure caught
ProductsSettled(st, answer) ==
    IF answer.ok
    THEN LET matches == SortByConfidence([i \in 1..Len(answer.rows) |->
                                            CriteriaMatch(st.criteria, answer.rows[i])])
         IN  [st EXCEPT !.pc = "done", !.stage = "finished", !.pending = NoRequest,
                        !.matches = matches,
                        !.result = [selected |-> IF matches # <<>> THEN matches[1] ELSE NoMatch,
                                    matches |-> matches, plan |-> st.plan]]
    ELSE [st EXCEPT !.pc = "done", !.stage = "finished", !.pending = NoRequest,
                    !.failed = Append(@, "multi_criteria_search"),
                    !.plan = Append(@, "multi_criteria_search_failed"),
                    !.result = [selected |-> NoMatch, matches |-> <<>>,
                                plan |-> Append(st.plan, "multi_criteria_search_failed")]]

-----------------------------------------------------------------------------
(* The repository: PlytixClient.getProduct and searchProducts *)

ErrorAnswer == [ok |-> FALSE, rows |-> <<>>]

Rows(rows) == [ok |-> TRUE, rows |-> rows]

\* what a request may be answered with: a page of rows, or a thrown error
RepoAnswers(req) ==
    IF req.kind = "getProduct"
    THEN {ErrorAnswer, Rows(<<>>), Rows(<<R2>>)}
    ELSE LET pages == CASE req.tag = <<"text_search_multi">> -> TextPages
                        [] req.tag = <<"broad_like_search">> -> BroadPages
                        [] req.tag = <<"multi_criteria">>    -> MultiPages
                        [] OTHER                             -> ExactPages
         IN  {ErrorAnswer} \cup {Rows(rows) : rows \in {r \in pages : Len(r) <= req.page_size}}

-----------------------------------------------------------------------------
(* Hydration: values, the environment, mapToHydratedRef *)

Null == [t |-> "null", v |-> <<>>]

\* a JavaScript array of values
Arr(xs) == [t |-> "array", v |-> xs]

IsArray(x) == x.t = "array"

\* x ?? y
Coalesce(x, y) == IF x \in {Undefined, Null} THEN y ELSE x

InSeq(seq, x) == \E i \in 1..Len(seq) : seq[i] = x

DigitValue == [d \in Digits |-> CHOOSE n \in 0..9 : ToString(n) = d]

RECURSIVE Decimal(_, _)
Decimal(s, acc) == IF s = <<>> THEN acc ELSE Decimal(Tail(s), 10 * acc + DigitValue[Head(s)])

\* Number.isFinite(n) ? n : null, n being the value itself or Number(string);
\* strings here are digit strings (the empty one is 0) or hold a character
\* that no numeric literal holds
FiniteNumberOrNull(v) ==
    IF v.t = "number" THEN v
    ELSE IF v.t = "string" /\ \A i \in 1..Len(v.v) : IsDigit(v.v[i]) THEN Num(Decimal(v.v, 0))
    ELSE Null

toNumberOrNull(v) == FiniteNumberOrNull(v)

toNum(v) == FiniteNumberOrNull(v)

\* the environment's settings; "" is a variable left unset
DefaultEnv ==
    [PLYTIX_MPN_ATTR_SLUG |-> "", PLYTIX_LABEL_ATTR_SLUG |-> "",
     PLYTIX_LIST_PRICE_ATTR_SLUG |-> "", SKU_LEVEL_ATTR_SLUG |-> "",
     FAMILY_SKU_ATTR_SLUG |-> "", PARENT_SKU_ATTR_SLUG |-> "",
     VARIANT_SKU_ATTR_SLUG |-> "", BRAND_SKU_ATTR_SLUG |-> "",
     FAMILY_SKU_REGEX |-> "", PARENT_SKU_REGEX |-> "", VARIANT_SKU_REGEX |-> ""]

\* a || b on setting names
OrElse(a, b) == IF a = "" THEN b ELSE a

\* a record as the backend returns it
Item(id, sku, attrs) == [id |-> id, sku |-> sku, attributes |-> attrs]

mapToHydratedRef(p, env) ==
    LET mpnKey   == OrElse(env.PLYTIX_MPN_ATTR_SLUG, "mpn")
        labelKey == OrElse(env.PLYTIX_LABEL_ATTR_SLUG, "name")
        priceKey == OrElse(env.PLYTIX_LIST_PRICE_ATTR_SLUG, "list_price")
    IN  [id        |-> p.id,
         sku       |-> Coalesce(Coalesce(p.sku, AttrValue(p, "sku")), Null),
         mpn       |-> Coalesce(AttrValue(p, mpnKey), Null),
         label     |-> Coalesce(AttrValue(p, labelKey), Null),
         listPrice |-> toNumberOrNull(AttrValue(p, priceKey))]

-----------------------------------------------------------------------------
(* The repository's batch fetches: PlytixClient.getProductsByIds and         *)
(* getProductsBySkus                                                         *)

Attr(key, value) == [key |-> key, value |-> value]

IdX == Str(<<"X">>)

IdY == Str(<<"Y">>)

IdZ == Str(<<"Z">>)

\* what the backend holds under an ID
Stored(id) ==
    CASE id = IdX -> Item(id, Str(<<"X", "S">>),
                          <<Attr("mpn", Str(<<"X", "M">>)), Attr("name", Str(<<"X">>)),
                            Attr("list_price", Str(<<"1", "0">>))>>)
      [] id = IdZ -> Item(id, Undefined,
                          <<Attr("part_no", Str(<<"Z", "M">>)), Attr("name", Str(<<"Z">>)),
                            Attr("list_price", Num(12))>>)
      [] OTHER    -> Item(id, Undefined, <<>>)

\* what the backend holds under a SKU
StoredBySku(sku) ==
    Item(Str(<<"i">> \o sku.v), sku,
         <<Attr("name", sku), Attr("list_price", Str(<<"n", "/", "a">>))>>)

\* a response body that is not the record asked for
Foreign == Item(Str(<<"Q">>), Undefined, <<>>)

\* the ways the backend may answer the request for one key
PerKeyOutcomes == {"found", "foreign", "fails"}

\* getProductsByIds: Promise.all over getProductById, which throws on any
\* failed request
GetProductsByIdsAnswers(ids) ==
    LET unique == Dedupe(ids, <<>>)
    IN  { IF \E i \in 1..Len(unique) : how[i] = "fails"
          THEN ErrorAnswer
          ELSE Rows([i \in 1..Len(unique) |->
                        IF how[i] = "found" THEN Stored(unique[i]) ELSE Foreign])
          : how \in [1..Len(unique) -> PerKeyOutcomes] }

\* getProductsBySkus: Promise.all over getProductBySku, which answers null
\* on any failed request; the nulls are filtered out
GetProductsBySkusAnswers(skus) ==
    LET unique == Dedupe(skus, <<>>)
    IN  { LET kept == SelectSeq([i \in 1..Len(unique) |-> i], LAMBDA i : how[i] # "fails")
          IN  Rows([j \in 1..Len(kept) |->
                      IF how[kept[j]] = "found" THEN StoredBySku(unique[kept[j]]) ELSE Foreign])
          : how \in [1..Len(unique) -> PerKeyOutcomes] }

-----------------------------------------------------------------------------
(* hydrateRelationships *)

REL_FIELDS == <<"replaces", "includes", "modules", "has_optional_accessory">>

RelationshipFieldsIgnoringFilter(relationshipFilter) == REL_FIELDS

\* relationshipFilter?.filter(f => REL_FIELDS.includes(f)) ?? REL_FIELDS
RelationshipFields(relationshipFilter) ==
    IF relationshipFilter = Undefined THEN REL_FIELDS
    ELSE SelectSeq(relationshipFilter.v, LAMBDA f : InSeq(REL_FIELDS, f))

\* Map.set on a map kept as its entries in insertion order
EntrySet(entries, key, value) ==
    IF \E i \in 1..Len(entries) : entries[i].key = key
    THEN [i \in 1..Len(entries) |->
            IF entries[i].key = key THEN [key |-> key, value |-> value] ELSE entries[i]]
    ELSE Append(entries, [key |-> key, value |-> value])

AppendAll(idSet, ids) == idSet \o ids

\* ids.forEach((id) => idSet.add(id)), the set kept in insertion order
AddAll(idSet, ids) == Dedupe(ids, idSet)

\* the loop over the fields: the string IDs of each non-empty array
RECURSIVE CollectIds(_, _, _)
CollectIds(product, fields, acc) ==
    IF fields = <<>> THEN acc
    ELSE LET f   == Head(fields)
             arr == product[f]
         IN  IF IsArray(arr) /\ Len(arr.v) > 0
             THEN LET ids == SelectSeq(arr.v, IsString)
                  IN  CollectIds(product, Tail(fields),
                                 [fieldIds |-> EntrySet(acc.fieldIds, f, ids),
                                  idSet    |-> AddAll(acc.idSet, ids)])
             ELSE CollectIds(product, Tail(fields), acc)

\* byId.set(p.id, mapToHydratedRef(p, env)) for each fetched record
RECURSIVE ById(_, _, _)
ById(fetched, env, acc) ==
    IF fetched = <<>> THEN acc
    ELSE ById(Tail(fetched), env, MapPut(acc, Head(fetched).id, mapToHydratedRef(Head(fetched), env)))

\* ids.map((id) => byId.get(id)).filter((h) => !!h)
Hydrated(ids, byId) ==
    LET found == SelectSeq(ids, LAMBDA id : id \in DOMAIN byId)
    IN  [i \in 1..Len(found) |-> byId[found[i]]]

\* out = { ...product } with each collected field replaced
RECURSIVE Rebuild(_, _, _)
Rebuild(out, fieldIds, byId) ==
    IF fieldIds = <<>> THEN out
    ELSE Rebuild([out EXCEPT ![Head(fieldIds).key] = Arr(Hydrated(Head(fieldIds).value, byId))],
                 Tail(fieldIds), byId)

NoProduct == [id |-> Undefined]

IdleHydration ==
    [pc |-> "idle", op |-> "none", product |-> NoProduct, filter |-> Undefined,
     includeBrand |-> FALSE, env |-> DefaultEnv, fieldIds |-> <<>>, targets |-> <<>>,
     level |-> Null, keys |-> <<>>, requests |-> <<>>, fetched |-> <<>>,
     out |-> NoProduct, hierarchy |-> EmptyMap]

\* hydrateRelationships up to its await, or to its early return
StartRelationships(product, relationshipFilter, env) ==
    LET got == CollectIds(product, RelationshipFields(relationshipFilter),
                          [fieldIds |-> <<>>, idSet |-> <<>>])
        st  == [IdleHydration EXCEPT !.op = "hydrateRelationships", !.product = product,
                                      !.filter = relationshipFilter, !.env = env,
                                      !.fieldIds = got.fieldIds]
    IN  IF got.idSet = <<>>
        THEN [st EXCEPT !.pc = "done", !.out = product]
        ELSE [st EXCEPT !.pc = "await", !.keys = got.idSet, !.requests = <<got.idSet>>]

\* the rest of hydrateRelationships, once getProductsByIds has settled; it
\* awaits outside any try block
RelationshipsSettled(st, answer) ==
    IF ~answer.ok THEN [st EXCEPT !.pc = "thrown", !.keys = <<>>]
    ELSE [st EXCEPT !.pc = "done", !.keys = <<>>, !.fetched = answer.rows,
                    !.out = Rebuild(st.product, st.fieldIds, ById(answer.rows, st.env, EmptyMap))]

-----------------------------------------------------------------------------
(* hydrateHierarchy *)

FamilyPattern == "^([^-]+-[^-]+)"

ParentPattern == "^(.*?)-[^-]+$"

\* a pattern set in the environment that compiles, and one that does not
FirstSegmentPattern == "^([^-]+)"

BrokenPattern == "("

Compiles(source) == source # BrokenPattern

rxFallingBackToFirstSegment(envVal, fallback) ==
    IF Compiles(OrElse(envVal, fallback)) THEN OrElse(envVal, fallback) ELSE FirstSegmentPattern

\* rx: the configured pattern, or the fallback when it is unset or does not compile
rx(envVal, fallback) ==
    IF Compiles(OrElse(envVal, fallback)) THEN OrElse(envVal, fallback) ELSE fallback

NoGroup == [matched |-> FALSE, group |-> <<>>]

Group(g) == [matched |-> TRUE, group |-> g]

\* the positions of the dashes
Dashes(s) == {i \in 1..Len(s) : s[i] = "-"}

Least(S) == CHOOSE i \in S : \A j \in S : i <= j

Greatest(S) == CHOOSE i \in S : \A j \in S : i >= j

\* the first capture group of sku.match(pattern), for the patterns above
FirstGroup(pattern, s) ==
    LET dashes == Dashes(s) IN
    CASE pattern = FamilyPattern ->
            \* a non-empty first segment, a dash, a non-empty second segment
            IF dashes = {} \/ Least(dashes) = 1 THEN NoGroup
            ELSE LET d    == Least(dashes)
                     rest == {i \in dashes : i > d}
                     stop == IF rest = {} THEN Len(s) ELSE Least(rest) - 1
                 IN  IF stop = d THEN NoGroup ELSE Group(SubSeq(s, 1, stop))
      [] pattern = ParentPattern ->
            \* everything before the last dash, the last segment non-empty
            IF dashes = {} \/ Greatest(dashes) = Len(s) THEN NoGroup
            ELSE Group(SubSeq(s, 1, Greatest(dashes) - 1))
      [] pattern = FirstSegmentPattern ->
            IF s = <<>> \/ s[1] = "-" THEN NoGroup
            ELSE Group(SubSeq(s, 1, IF dashes = {} THEN Len(s) ELSE Least(dashes) - 1))

deriveByRegexWholeMatch(sku, pattern) ==
    IF ~Truthy(sku) THEN Null
    ELSE LET m == FirstGroup(pattern, sku.v)
         IN  IF ~m.matched THEN Null
             ELSE IF pattern = ParentPattern THEN sku
             ELSE Str(m.group)

\* if (!sku) return null; m?.[1] ?? null
deriveByRegex(sku, pattern) ==
    IF ~Truthy(sku) THEN Null
    ELSE LET m == FirstGroup(pattern, sku.v)
         IN  IF m.matched THEN Str(m.group) ELSE Null

AllLevels == {"variant", "parent", "family"}

EffectiveFilterAll(hierarchyFilter) == AllLevels

\* the levels asked for: the filter's, or all three when it is absent or empty
EffectiveFilter(hierarchyFilter) ==
    IF hierarchyFilter # Undefined /\ Len(hierarchyFilter.v) > 0
    THEN {hierarchyFilter.v[i] : i \in 1..Len(hierarchyFilter.v)}
    ELSE AllLevels

\* typeof attrs[key] === "string" ? attrs[key] : null
StringAttr(product, key) ==
    IF IsString(AttrValue(product, key)) THEN AttrValue(product, key) ELSE Null

HierarchyTargetsParentFromLevelTwo(product, filter, includeBrand, env, level) ==
    LET sku      == Coalesce(product.sku, AttrValue(product, "sku"))
        famKey   == env.FAMILY_SKU_ATTR_SLUG
        parKey   == OrElse(env.PARENT_SKU_ATTR_SLUG, "parent_sku")
        varKey   == OrElse(env.VARIANT_SKU_ATTR_SLUG, "variant_sku")
        brandKey == OrElse(env.BRAND_SKU_ATTR_SLUG, "brand_sku")
        famRx    == rx(env.FAMILY_SKU_REGEX, FamilyPattern)
        parRx    == rx(env.PARENT_SKU_REGEX, ParentPattern)
        varRx    == rx(env.VARIANT_SKU_REGEX, ParentPattern)
        entry(name, target) == <<[key |-> name, value |-> target]>>
    IN  (IF "family" \in filter /\ level \in {Num(1), Num(2), Num(3), Num(4)}
         THEN entry("family", Coalesce(StringAttr(product, famKey), deriveByRegex(sku, famRx)))
         ELSE <<>>)
     \o (IF "parent" \in filter /\ level \in {Num(2), Num(3), Num(4)}
         THEN entry("parent", Coalesce(StringAttr(product, parKey), deriveByRegex(sku, parRx)))
         ELSE <<>>)
     \o (IF "variant" \in filter /\ level = Num(4)
         THEN entry("variant", Coalesce(StringAttr(product, varKey), deriveByRegex(sku, varRx)))
         ELSE <<>>)
     \o (IF includeBrand THEN entry("brand", StringAttr(product, brandKey)) ELSE <<>>)

\* targets, in insertion order: the levels resolved and the SKU aimed at
HierarchyTargets(product, filter, includeBrand, env, level) ==
    LET sku      == Coalesce(product.sku, AttrValue(product, "sku"))
        famKey   == env.FAMILY_SKU_ATTR_SLUG
        parKey   == OrElse(env.PARENT_SKU_ATTR_SLUG, "parent_sku")
        varKey   == OrElse(env.VARIANT_SKU_ATTR_SLUG, "variant_sku")
        brandKey == OrElse(env.BRAND_SKU_ATTR_SLUG, "brand_sku")
        famRx    == rx(env.FAMILY_SKU_REGEX, FamilyPattern)
        parRx    == rx(env.PARENT_SKU_REGEX, ParentPattern)
        varRx    == rx(env.VARIANT_SKU_REGEX, ParentPattern)
        entry(name, target) == <<[key |-> name, value |-> target]>>
    IN  (IF "family" \in filter /\ level \in {Num(1), Num(2), Num(3), Num(4)}
         THEN entry("family", Coalesce(StringAttr(product, famKey), deriveByRegex(sku, famRx)))
         ELSE <<>>)
     \o (IF "parent" \in filter /\ level \in {Num(3), Num(4)}
         THEN entry("parent", Coalesce(StringAttr(product, parKey), deriveByRegex(sku, parRx)))
         ELSE <<>>)
     \o (IF "variant" \in filter /\ level = Num(4)
         THEN entry("variant", Coalesce(StringAttr(product, varKey), deriveByRegex(sku, varRx)))
         ELSE <<>>)
     \o (IF includeBrand THEN entry("brand", StringAttr(product, brandKey)) ELSE <<>>)

\* for (const s of targets.values()) if (s) skuSet.add(s)
SkuSet(targets) ==
    LET aimed == SelectSeq(targets, LAMBDA e : Truthy(e.value))
    IN  Dedupe([i \in 1..Len(aimed) |-> aimed[i].value], <<>>)

\* new Map(found.map((p) => [p.sku ?? "", p]).filter(([k]) => !!k))
RECURSIVE BySku(_, _)
BySku(found, acc) ==
    IF found = <<>> THEN acc
    ELSE LET k == Coalesce(Head(found).sku, Str(<<>>))
         IN  BySku(Tail(found), IF Truthy(k) THEN MapPut(acc, k, Head(found)) ELSE acc)

\* the result object: level, then one key per target
RECURSIVE BuildHierarchy(_, _, _, _)
BuildHierarchy(hierarchy, targets, fetchedBySku, env) ==
    IF targets = <<>> THEN hierarchy
    ELSE LET name      == Head(targets).key
             targetSku == Head(targets).value
             ref == IF Truthy(targetSku) /\ targetSku \in DOMAIN fetchedBySku
                    THEN mapToHydratedRef(fetchedBySku[targetSku], env)
                    ELSE Null
         IN  BuildHierarchy(MapPut(hierarchy, name, ref), Tail(targets), fetchedBySku, env)

\* hydrateHierarchy up to its await, or to its return when there is no SKU to fetch
StartHierarchy(product, hierarchyFilter, includeBrand, env) ==
    LET level   == toNum(AttrValue(product, OrElse(env.SKU_LEVEL_ATTR_SLUG, "sku_level")))
        targets == HierarchyTargets(product, EffectiveFilter(hierarchyFilter),
                                    includeBrand, env, level)
        skus    == SkuSet(targets)
        st      == [IdleHydration EXCEPT !.op = "hydrateHierarchy", !.product = product,
                                          !.filter = hierarchyFilter, !.env = env,
                                          !.includeBrand = includeBrand,
                                          !.level = level, !.targets = targets]
    IN  IF Len(skus) > 0
        THEN [st EXCEPT !.pc = "await", !.keys = skus, !.requests = <<skus>>]
        ELSE [st EXCEPT !.pc = "done",
                        !.hierarchy = BuildHierarchy(MapPut(EmptyMap, "level", level),
                                                     targets, EmptyMap, env)]

HierarchySettledNullFilling(st, answer) ==
    IF ~answer.ok THEN [st EXCEPT !.pc = "thrown", !.keys = <<>>]
    ELSE [st EXCEPT !.pc = "done", !.keys = <<>>, !.fetched = answer.rows,
                    !.hierarchy =
                        BuildHierarchy(
                            [k \in {"level"} \cup EffectiveFilter(st.filter) |->
                                IF k = "level" THEN st.level ELSE Null],
                            st.targets, BySku(answer.rows, EmptyMap), st.env)]

\* the rest of hydrateHierarchy, once getProductsBySkus has settled; it awaits
\* outside any try block
HierarchySettled(st, answer) ==
    IF ~answer.ok THEN [st EXCEPT !.pc = "thrown", !.keys = <<>>]
    ELSE [st EXCEPT !.pc = "done", !.keys = <<>>, !.fetched = answer.rows,
                    !.hierarchy = BuildHierarchy(MapPut(EmptyMap, "level", st.level),
                                                 st.targets, BySku(answer.rows, EmptyMap),
                                                 st.env)]

-----------------------------------------------------------------------------
(* Actions of the lookup engine *)

Init ==
    /\ cfg \in [cacheEnabled : BOOLEAN, searchFields : SearchFieldConfigs,
                pageSize : {5}, cacheTtlMs : {CacheTtlTicks}]
    /\ cache = EmptyMap
    /\ now = 0
    /\ calls = [c \in AllCallers |-> IdleCall]
    /\ lookups = 0
    /\ callers = {"c1"}
    /\ repoMode = "free"
    /\ repoTable = EmptyMap
    /\ hyd = IdleHydration
    /\ pure = NoCall

\* findByIdentifier from its entry to its first await, or to the cached result
FindByIdentifier(c, identifier, explicitType, limit) ==
    /\ c \in callers
    /\ calls[c].pc \in {"idle", "done"}
    /\ lookups < MaxLookups
    /\ lookups' = lookups + 1
    /\ LET cacheKey == getCacheKey(identifier, explicitType, limit)
           cached   == getFromCache(cfg, cache, cacheKey, now)
           fresh    == StartLookup(cfg, identifier, explicitType, limit, now)
       IN  /\ cache' = cached.cache
           /\ calls' = [calls EXCEPT ![c] =
                  IF cached.hit
                  THEN [fresh EXCEPT !.pc = "done", !.stage = "cached", !.fromCache = TRUE,
                                     !.served = cached.entry, !.servedAt = now,
                                     !.result = cached.entry.result,
                                     !.plan = cached.entry.result.plan,
                                     !.matches = cached.entry.result.matches]
                  ELSE DirectStage([fresh EXCEPT !.evicted = (cached.cache # cache)])]
    /\ UNCHANGED <<cfg, now, callers, repoMode, repoTable, hyd, pure>>

\* findProducts from its entry to its await
FindProducts(c, criteria, limit) ==
    /\ c \in callers
    /\ calls[c].pc \in {"idle", "done"}
    /\ lookups < MaxLookups
    /\ lookups' = lookups + 1
    /\ calls' = [calls EXCEPT ![c] = StartProducts(criteria, limit, now)]
    /\ UNCHANGED <<cfg, cache, now, callers, repoMode, repoTable, hyd, pure>>

Settle(st, answer) ==
    IF st.op = "findProducts" THEN ProductsSettled(st, answer) ELSE OnSettled(st, answer)

RunsOnSkippingEmpty(c, st) ==
    /\ calls' = [calls EXCEPT ![c] = st]
    /\ cache' = IF st.pc = "done" /\ st.op = "findByIdentifier" /\ st.result.matches # <<>>
                THEN setCache(cfg, cache, st.cacheKey, st.result, now)
                ELSE cache

\* the invocation is at its next await or has returned; findByIdentifier
\* writes the cache before it returns
RunsOn(c, st) ==
    /\ calls' = [calls EXCEPT ![c] = st]
    /\ cache' = IF st.pc = "done" /\ st.op = "findByIdentifier"
                THEN setCache(cfg, cache, st.cacheKey, st.result, now)
                ELSE cache

\* the awaited repository call settles and the invocation runs on to its next
\* await or to its return (which writes the cache)
RepositoryAnswers(c) ==
    /\ calls[c].pc = "await"
    /\ \E answer \in RepoAnswers(calls[c].pending) :
        /\ (repoMode = "fixed" /\ calls[c].pending \in DOMAIN repoTable)
              => answer = repoTable[calls[c].pending]
        /\ repoTable' = IF repoMode = "fixed"
                        THEN MapPut(repoTable, calls[c].pending, answer)
                        ELSE repoTable
        /\ RunsOn(c, Settle(calls[c], answer))
    /\ UNCHANGED <<cfg, now, lookups, callers, repoMode, hyd, pure>>

\* time passes
Tick ==
    /\ now < MaxTime
    /\ now' = now + 1
    /\ UNCHANGED <<cfg, cache, calls, lookups, callers, repoMode, repoTable, hyd, pure>>

Next ==
    \/ \E c \in AllCallers, identifier \in Identifiers, explicitType \in ExplicitTypes,
          limit \in Limits : FindByIdentifier(c, identifier, explicitType, limit)
    \/ \E c \in AllCallers, criteria \in CriteriaSet, limit \in Limits :
          FindProducts(c, criteria, limit)
    \/ \E c \in AllCallers : RepositoryAnswers(c)
    \/ Tick

Spec == Init /\ [][Next]_vars

\* the same engine in front of a repository that answers equal requests equally
InitDet ==
    /\ cfg \in [cacheEnabled : BOOLEAN, searchFields : SearchFieldConfigs,
                pageSize : {5}, cacheTtlMs : {CacheTtlTicks}]
    /\ cache = EmptyMap
    /\ now = 0
    /\ calls = [c \in AllCallers |-> IdleCall]
    /\ lookups = 0
    /\ callers = {"c1"}
    /\ repoMode = "fixed"
    /\ repoTable = EmptyMap
    /\ hyd = IdleHydration
    /\ pure = NoCall

SpecDet == InitDet /\ [][Next]_vars

-----------------------------------------------------------------------------
(* Actions of the hydrators *)

Chars(a, b, c) == Str(<<a, b, c>>)

\* a product with relationship fields; "related" is not one of them
RelProduct(replacesIds, includesIds, modulesIds, accessoryIds) ==
    [id |-> Str(<<"A">>), sku |-> Chars("A", "-", "1"), replaces |-> replacesIds,
     includes |-> includesIds, modules |-> modulesIds,
     has_optional_accessory |-> accessoryIds,
     related |-> Arr(<<IdX>>)]

RelProducts ==
    { RelProduct(Arr(<<IdZ>>), Arr(<<IdX, IdY>>), Undefined, Undefined),
      RelProduct(Arr(<<IdX>>), Arr(<<IdX>>), Undefined, Undefined),
      RelProduct(Undefined, Arr(<<IdY, IdX, IdY>>), Arr(<<>>), Undefined),
      RelProduct(Undefined, Undefined, Undefined, Undefined),
      RelProduct(Undefined, Arr(<<Num(7)>>), Undefined, Undefined),
      RelProduct(Undefined, Arr(<<Num(7), IdX>>), Undefined, Arr(<<IdY>>)) }

RelationshipFilters ==
    { Undefined, Arr(<<>>), Arr(<<"includes">>), Arr(<<"replaces", "bogus", "includes">>) }

Envs ==
    { DefaultEnv,
      [DefaultEnv EXCEPT !.PLYTIX_MPN_ATTR_SLUG = "part_no",
                         !.FAMILY_SKU_ATTR_SLUG = "family_sku",
                         !.PARENT_SKU_REGEX = BrokenPattern,
                         !.VARIANT_SKU_REGEX = FirstSegmentPattern],
      [DefaultEnv EXCEPT !.FAMILY_SKU_REGEX = BrokenPattern,
                         !.VARIANT_SKU_REGEX = BrokenPattern] }

\* products of a hierarchy: SKU "A-B-C", "A-B-C-D", "AB", "A-" or none, with or
\* without a level, a parent pointer, a brand pointer, a family pointer
HierarchySkus ==
    { Str(<<"A", "-", "B", "-", "C">>), Str(<<"A", "-", "B", "-", "C", "-", "D">>),
      Str(<<"A", "B">>), Str(<<"A", "-">>), Undefined }

LevelValues == { Undefined, Num(4), Str(<<"3">>), Num(2), Num(1), Num(0), Num(5) }

Optional(key, value) == IF value = Undefined THEN <<>> ELSE <<Attr(key, value)>>

HierarchyProducts ==
    { Item(Str(<<"A">>), sku,
           Optional("sku_level", level) \o Optional("parent_sku", parent)
               \o Optional("brand_sku", brand) \o Optional("family_sku", family))
      : sku \in HierarchySkus, level \in LevelValues,
        parent \in {Undefined, Chars("P", "-", "1")},
        brand \in {Undefined, Str(<<"B", "R">>)},
        family \in {Undefined, Str(<<"A", "-", "B">>)} }

HierarchyFilters ==
    { Undefined, Arr(<<>>), Arr(<<"family">>), Arr(<<"parent", "variant">>) }

\* the hydrators keep no state between calls: one call per behaviour
NotStarted == hyd.pc = "idle"

HydrateRelationships(product, relationshipFilter, env) ==
    /\ NotStarted
    /\ hyd' = StartRelationships(product, relationshipFilter, env)
    /\ UNCHANGED <<lookupVars, pure>>

GetProductsByIdsSettles ==
    /\ hyd.pc = "await" /\ hyd.op = "hydrateRelationships"
    /\ \E answer \in GetProductsByIdsAnswers(hyd.keys) :
          hyd' = RelationshipsSettled(hyd, answer)
    /\ UNCHANGED <<lookupVars, pure>>

HydrateHierarchy(product, hierarchyFilter, includeBrand, env) ==
    /\ NotStarted
    /\ hyd' = StartHierarchy(product, hierarchyFilter, includeBrand, env)
    /\ UNCHANGED <<lookupVars, pure>>

GetProductsBySkusSettles ==
    /\ hyd.pc = "await" /\ hyd.op = "hydrateHierarchy"
    /\ \E answer \in GetProductsBySkusAnswers(hyd.keys) :
          hyd' = HierarchySettled(hyd, answer)
    /\ UNCHANGED <<lookupVars, pure>>

InitHydrate ==
    /\ cfg = [cacheEnabled |-> FALSE, searchFields |-> DEFAULT_SEARCH_FIELDS,
              pageSize |-> 5, cacheTtlMs |-> CacheTtlTicks]
    /\ cache = EmptyMap
    /\ now = 0
    /\ calls = [c \in AllCallers |-> IdleCall]
    /\ lookups = 0
    /\ callers = {}
    /\ repoMode = "free"
    /\ repoTable = EmptyMap
    /\ hyd = IdleHydration
    /\ pure = NoCall

NextHydrate ==
    \/ \E product \in RelProducts, relationshipFilter \in RelationshipFilters, env \in Envs :
          HydrateRelationships(product, relationshipFilter, env)
    \/ GetProductsByIdsSettles
    \/ \E product \in HierarchyProducts, hierarchyFilter \in HierarchyFilters,
          includeBrand \in BOOLEAN, env \in Envs :
          HydrateHierarchy(product, hierarchyFilter, includeBrand, env)
    \/ GetProductsBySkusSettles

SpecHydrate == InitHydrate /\ [][NextHydrate]_vars

-----------------------------------------------------------------------------
(* Calls of the functions of identifier.ts *)

MaxShort == 3       \* longest identifier drawn from ShortAlphabet

MaxSimLen == 2      \* longest argument of calculateSimilarity

ShortAlphabet == {"a", "Z", "1", "-", " ", ".", "#"}

StringsUpTo(n) == UNION { [1..k -> ShortAlphabet] : k \in 0..n }

Repeat(c, n) == [i \in 1..n |-> c]

\* identifiers of the lengths and shapes the rules single out
NamedIdentifiers ==
    { Repeat("1", n) : n \in 7..15 }
    \cup { Repeat("a", 23), Repeat("a", 24), Repeat("a", 25), Repeat("g", 24),
           Repeat("F", 12) \o Repeat("0", 12), Repeat("1", 24),
           Repeat("1", 7) \o <<"a">>, Repeat("1", 4) \o <<"-">> \o Repeat("1", 3),
           <<" ">> \o Repeat("1", 8) \o <<" ">>, Repeat("1", 4) \o <<" ">> \o Repeat("1", 3),
           <<"L", "M", "I", "-", "P", "D", "0", "4", "1", "8", "2", "8", "S", "I">>,
           <<"P", "D", "0", "4", "1", "-", "8", "2", "8", "S", "I">>,
           <<"A", "B", "C", "-", "1", "2", "3", "-", "X", "Y", "Z">>,
           <<"A", "B", "1", "-", "1", "2", "3">>,
           <<"a", "b", "c", "-", "1">>, <<"a", "b", "-", "1", "2">>,
           <<"a", "-", "-", "1">>, <<"a", "1", "-", "-">>, <<"a", "_", "b", ".", "c">>,
           <<"_", "a", "b", "1">>, <<"a", "b", "c", "d", "-">>, <<"a", "\t", "b">> }

DetectInputs == StringsUpTo(MaxShort) \cup NamedIdentifiers

SimilarityInputs == StringsUpTo(MaxSimLen)

\* one call per behaviour
NotCalled == pure.fn = "none"

DetectIdentifierType(raw) ==
    /\ pure' = [fn |-> "detectIdentifierType", raw |-> raw,
                result |-> detectIdentifierType(raw)]
    /\ UNCHANGED <<lookupVars, hyd>>

CalculateSimilarity(a, b) ==
    /\ pure' = [fn |-> "calculateSimilarity", a |-> a, b |-> b,
                result |-> calculateSimilarity(a, b)]
    /\ UNCHANGED <<lookupVars, hyd>>

InitIdentifier ==
    /\ cfg = [cacheEnabled |-> FALSE, searchFields |-> DEFAULT_SEARCH_FIELDS,
              pageSize |-> 5, cacheTtlMs |-> CacheTtlTicks]
    /\ cache = EmptyMap
    /\ now = 0
    /\ calls = [c \in AllCallers |-> IdleCall]
    /\ lookups = 0
    /\ callers = {}
    /\ repoMode = "free"
    /\ repoTable = EmptyMap
    /\ hyd = IdleHydration
    /\ pure = NoCall

NextIdentifier ==
    \/ NotCalled /\ \E raw \in DetectInputs : DetectIdentifierType(raw)
    \/ NotCalled /\ \E a \in SimilarityInputs, b \in SimilarityInputs :
                        CalculateSimilarity(a, b)

SpecIdentifier == InitIdentifier /\ [][NextIdentifier]_vars

-----------------------------------------------------------------------------
(* The worker's request handler: fetch *)

MaxBatch == 2       \* longest JSON-RPC batch

publicMethods == {"initialize", "notifications/initialized", "tools/list"}

Methods == publicMethods \cup {"tools/call", "ping"}

\* an element of the parsed body: an object with a string method, or anything
\* else (null, a number, an object without a method)
RpcItems == { [isRequest |-> TRUE, method |-> m] : m \in Methods }
            \cup { [isRequest |-> FALSE, method |-> ""] }

\* the body text: not JSON, one value, or an array of values
Bodies ==
    { [kind |-> "invalid", items |-> <<>>] }
    \cup { [kind |-> "single", items |-> <<it>>] : it \in RpcItems }
    \cup { [kind |-> "batch", items |-> items] :
             items \in UNION { [1..n -> RpcItems] : n \in 0..MaxBatch } }

BearerPrefix == <<"B", "e", "a", "r", "e", "r", " ">>

\* values of a header: absent, empty, set
CredentialHeaders == { Null, Str(<<>>), Str(<<"k">>) }

AuthorizationHeaders ==
    { Null,
      Str(BearerPrefix \o <<"k", ":", "p">>),
      Str(BearerPrefix \o <<":", "p">>),
      Str(BearerPrefix \o <<"k", ":">>),
      Str(BearerPrefix \o <<"k", "p">>),
      Str(<<"B", "a", "s", "i", "c", " ", "k", ":", "p">>),
      Str(<<"k", ":", "p">>) }

Requests ==
    [method : {"POST", "GET", "OPTIONS"}, pathname : {"/mcp", "/health", "/"},
     body : Bodies, apiKey : CredentialHeaders, apiPassword : CredentialHeaders,
     authorization : AuthorizationHeaders]

\* token.indexOf(':'), counted from 0; -1 when there is none
indexOfColon(token) ==
    IF \E i \in 1..Len(token) : token[i] = ":"
    THEN (CHOOSE i \in 1..Len(token) : token[i] = ":" /\ \A j \in 1..(i - 1) : token[j] # ":") - 1
    ELSE -1

\* lines 835-850: the two headers, else the halves of a Bearer key:password token
CredentialsFrom(apiKey, apiPassword, authHeader) ==
    IF (~Truthy(apiKey) \/ ~Truthy(apiPassword))
       /\ IsString(authHeader) /\ startsWith(authHeader.v, BearerPrefix)
       /\ indexOfColon(SubSeq(authHeader.v, 8, Len(authHeader.v))) > 0
    THEN [apiKey |-> Str(SubSeq(authHeader.v, 8,
                                7 + indexOfColon(SubSeq(authHeader.v, 8, Len(authHeader.v))))),
          apiPassword |-> Str(SubSeq(authHeader.v,
                                     9 + indexOfColon(SubSeq(authHeader.v, 8, Len(authHeader.v))),
                                     Len(authHeader.v)))]
    ELSE [apiKey |-> apiKey, apiPassword |-> apiPassword]

\* lines 825-829
allPublic(items) ==
    \A i \in 1..Len(items) : items[i].isRequest /\ items[i].method \in publicMethods

\* lines 803-912: the status of the response to POST /mcp
McpStatus(body, credentials) ==
    IF body.kind = "invalid" THEN 400
    ELSE IF ~allPublic(body.items)
            /\ (~Truthy(credentials.apiKey) \/ ~Truthy(credentials.apiPassword))
    THEN 401
    ELSE 200

\* lines 755-918: the status of the response
fetchStatus(request) ==
    IF request.method = "OPTIONS" THEN 204
    ELSE IF request.pathname = "/health" THEN 200
    ELSE IF request.pathname = "/" /\ request.method = "GET" THEN 200
    ELSE IF request.pathname = "/mcp" /\ request.method = "POST"
    THEN McpStatus(request.body,
                   CredentialsFrom(request.apiKey, request.apiPassword, request.authorization))
    ELSE 404

Fetch(request) ==
    /\ pure' = [fn |-> "fetch", request |-> request, status |-> fetchStatus(request)]
    /\ UNCHANGED <<lookupVars, hyd>>

NextWorker == NotCalled /\ \E request \in Requests : Fetch(request)

SpecWorker == InitIdentifier /\ [][NextWorker]_vars

-----------------------------------------------------------------------------
(* Properties of the lookup engine *)

Callers == {c \in AllCallers : calls[c].op # "none"}

Returned(c) == calls[c].pc = "done"

\* a - b >= 0.15 on exact confidences
GapAtLeastMargin(a, b) == (a.n * b.d - b.n * a.d) * 20 >= 3 * a.d * b.d

NonIncreasing(ms) ==
    \A i \in 1..(Len(ms) - 1) : ~RatLess(ms[i].confidence, ms[i + 1].confidence)

Has(seq, x) == \E i \in 1..Len(seq) : seq[i] = x

\* x directly followed by y
HasAdjacent(seq, x, y) == \E i \in 1..(Len(seq) - 1) : seq[i] = x /\ seq[i + 1] = y

C2_StageFailureIsCaught ==
    \A c \in Callers :
        LET st == calls[c]
            plan == st.plan
            exact == st.exactSearches
            firstSearch == IF exact # <<>> THEN JoinDot(exact[1].tag) ELSE "text_search_multi"
        IN  st.op = "findByIdentifier" =>
            /\ st.pc \in {"await", "done"}
            /\ \A i \in 1..Len(st.failed) :
                  HasAdjacent(plan, st.failed[i], st.failed[i] \o "_failed")
            /\ (st.pc = "done" /\ ~st.fromCache) =>
                /\ st.result.plan = plan
                /\ Has(st.failed, "direct_id_lookup") => Has(plan, firstSearch)
                /\ \A i \in 1..(Len(exact) - 1) :
                      Has(st.failed, JoinDot(exact[i].tag)) => Has(plan, JoinDot(exact[i + 1].tag))
                /\ (exact # <<>> /\ Has(st.failed, JoinDot(exact[Len(exact)].tag))
                      /\ st.result.matches = <<>>) => Has(plan, "text_search_multi")
                /\ Has(st.failed, "text_search_multi") => Has(plan, "broad_like_search")

\* every stage of one lookup failed (two exact searches, text, broad) and the
\* lookup still returned a result, with no matches
C2_Witness ==
    \E c \in Callers :
        /\ Returned(c) /\ calls[c].op = "findByIdentifier" /\ ~calls[c].fromCache
        /\ Len(calls[c].failed) = 4
        /\ calls[c].result.matches = <<>>
        /\ Has(calls[c].result.plan, "broad_like_search_failed")

\* C3: the fetch by ID is issued only when the resolved type is "id"; when it
\* returns a record the invocation is over: the result is that one Match with
\* confidence 1.0, selected, and no search request was issued for the lookup.
C3_DirectHitStopsTheLookup ==
    \A c \in Callers :
        LET st == calls[c] IN
        /\ (\E i \in 1..Len(st.issued) : st.issued[i].kind = "getProduct") => st.type = "id"
        /\ (\E i \in 1..Len(st.matches) : st.matches[i].reason = "direct_id_lookup") =>
            /\ st.pc = "done"
            /\ Len(st.result.matches) = 1
            /\ st.result.matches[1].confidence = One
            /\ st.result.matches[1].matchedField = "id"
            /\ st.result.selected = st.result.matches[1]
            /\ \A i \in 1..Len(st.issued) : st.issued[i].kind # "searchProducts"

\* a lookup of type "id" whose fetch returned a record
C3_Witness ==
    \E c \in Callers :
        /\ Returned(c) /\ calls[c].stage = "direct_hit" /\ calls[c].type = "id"
        /\ Len(calls[c].issued) = 1 /\ calls[c].issued[1].kind = "getProduct"
        /\ calls[c].result.selected.id = R2.id

\* the result of the staged search with no cache in front of it, the
\* repository answering as it has answered before
RECURSIVE Replay(_)
Replay(st) ==
    IF st.pc = "await" /\ st.pending \in DOMAIN repoTable
    THEN Replay(Settle(st, repoTable[st.pending]))
    ELSE st

Uncached(identifier, explicitType, limit) ==
    Replay(DirectStage(StartLookup(cfg, identifier, explicitType, limit, now)))

\* C4: in front of a repository that answers equal requests equally, every
\* result findByIdentifier returns, cached or not, is the result the staged
\* search computes for that call with no cache; only repository calls are saved.
C4_CacheDoesNotChangeResults ==
    \A c \in Callers :
        (Returned(c) /\ calls[c].op = "findByIdentifier") =>
            LET u == Uncached(calls[c].identifier, calls[c].explicitType, calls[c].limit)
            IN  u.pc = "done" /\ u.result = calls[c].result

\* a result served from the cache, at no repository call, that the uncached
\* search needs repository calls for
C4_Witness ==
    \E c \in Callers :
        /\ Returned(c) /\ calls[c].fromCache /\ calls[c].issued = <<>>
        /\ Len(calls[c].result.matches) = 2
        /\ Len(Uncached(calls[c].identifier, calls[c].explicitType, calls[c].limit).issued) > 1

\* C5: a read of an entry past timestamp + ttl is a miss that deletes the entry
\* and starts the staged search; an entry is served only up to timestamp + ttl.
C5_ExpiredEntryNeverServed ==
    [][\A c \in AllCallers :
        (lookups' = lookups + 1 /\ calls'[c] # calls[c] /\ calls'[c].op = "findByIdentifier") =>
            LET key == calls'[c].cacheKey
                held == cfg.cacheEnabled /\ key \in DOMAIN cache
            IN  /\ (held /\ now > cache[key].timestamp + cache[key].ttl) =>
                    /\ ~calls'[c].fromCache
                    /\ key \notin DOMAIN cache'
                    /\ calls'[c].pc = "await"
                    /\ Len(calls'[c].issued) = 1
                /\ calls'[c].fromCache =>
                    /\ held
                    /\ calls'[c].served = cache[key]
                    /\ calls'[c].result = cache[key].result
                    /\ now <= cache[key].timestamp + cache[key].ttl]_vars

\* a lookup whose read found its entry expired, deleted it, and is searching
C5_Witness ==
    \E c \in Callers :
        /\ calls[c].evicted /\ calls[c].pc = "await"
        /\ calls[c].cacheKey \notin DOMAIN cache

\* C10: every result returned by findByIdentifier or findProducts, computed or
\* served from the cache, has matches in non-increasing confidence.
C10_MatchesSortedWhenReturned ==
    \A c \in Callers : Returned(c) => NonIncreasing(calls[c].result.matches)

\* results of both operations holding two matches the repository returned in
\* ascending confidence: one from findProducts, one served from the cache
C10_Witness ==
    \E c \in Callers :
        /\ Returned(c) /\ Len(calls[c].result.matches) = 2
        /\ RatLess(calls[c].result.matches[2].confidence, calls[c].result.matches[1].confidence)
        /\ calls[c].result.matches[1].raw = (IF calls[c].op = "findProducts" THEN R5 ELSE R1)
        /\ calls[c].op = "findByIdentifier" => calls[c].fromCache

-----------------------------------------------------------------------------
(* Properties of the hydrators *)

NoDuplicates(seq) == \A i, j \in 1..Len(seq) : i # j => seq[i] # seq[j]

Elements(seq) == {seq[i] : i \in 1..Len(seq)}

\* the relationship fields a call hydrates, from its filter
AskedFields(st) ==
    {f \in Elements(REL_FIELDS) : st.filter = Undefined \/ InSeq(st.filter.v, f)}

\* the IDs or SKUs a call has to fetch, from its inputs
KeysToFetch(st) ==
    IF st.op = "hydrateRelationships"
    THEN UNION { {x \in Elements(st.product[f].v) : IsString(x)}
                 : f \in {g \in AskedFields(st) : IsArray(st.product[g])} }
    ELSE {e.value : e \in {d \in Elements(st.targets) : Truthy(d.value)}}

\* C6: one hydrateRelationships or hydrateHierarchy call issues its batch fetch
\* at most once, exactly once if there is a key to fetch and never otherwise,
\* and the key list it passes holds every key once.
C6_OneDeduplicatedBatchFetch ==
    hyd.op # "none" =>
        /\ Len(hyd.requests) <= 1
        /\ (Len(hyd.requests) = 1) <=> (KeysToFetch(hyd) # {})
        /\ \A r \in 1..Len(hyd.requests) :
              /\ NoDuplicates(hyd.requests[r])
              /\ Elements(hyd.requests[r]) = KeysToFetch(hyd)

\* ID X stands in two relationship fields and was asked for once
C6_Witness ==
    /\ hyd.op = "hydrateRelationships" /\ hyd.pc = "done"
    /\ hyd.product.includes = Arr(<<IdX>>) /\ hyd.product.replaces = Arr(<<IdX>>)
    /\ Len(hyd.fieldIds) = 2
    /\ hyd.requests = << <<IdX>> >>

\* C7: every hydrated relationship array keeps the length and order of its
\* IDs; an ID the batch fetch did not return stands at its position with
\* sku, mpn, label and listPrice null.
C7_MissingIdsAreNullFilled ==
    (hyd.op = "hydrateRelationships" /\ hyd.pc = "done" /\ hyd.requests # <<>>) =>
        \A e \in Elements(hyd.fieldIds) :
            LET ids == e.value
                arr == hyd.out[e.key].v
            IN  /\ Len(arr) = Len(ids)
                /\ \A i \in 1..Len(ids) :
                      /\ arr[i].id = ids[i]
                      /\ (\A k \in 1..Len(hyd.fetched) : hyd.fetched[k].id # ids[i]) =>
                            arr[i] = [id |-> ids[i], sku |-> Null, mpn |-> Null,
                                      label |-> Null, listPrice |-> Null]

\* includes is [X, Y], the fetch returned X and nothing for Y, and the
\* hydrated includes holds one entry
C7_Witness ==
    /\ hyd.op = "hydrateRelationships" /\ hyd.pc = "done"
    /\ hyd.product.includes = Arr(<<IdX, IdY>>)
    /\ \E k \in 1..Len(hyd.fetched) : hyd.fetched[k].id = IdX
    /\ \A k \in 1..Len(hyd.fetched) : hyd.fetched[k].id # IdY
    /\ Len(hyd.out.includes.v) = 1
    /\ hyd.out.includes.v[1].id = IdX

Qualifies(name, level) ==
    CASE name = "family"  -> level \in {Num(1), Num(2), Num(3), Num(4)}
      [] name = "parent"  -> level \in {Num(3), Num(4)}
      [] name = "variant" -> level = Num(4)

C9_FetchErrorNeverEscapes == hyd.pc # "thrown"

-----------------------------------------------------------------------------
(* Properties of identifier.ts *)

\* the parts of s between its dashes, empty parts included
RECURSIVE SplitOnDash(_, _, _)
SplitOnDash(s, cur, acc) ==
    IF s = <<>> THEN Append(acc, cur)
    ELSE IF s[1] = "-" THEN SplitOnDash(Tail(s), <<>>, Append(acc, cur))
    ELSE SplitOnDash(Tail(s), Append(cur, s[1]), acc)

AllOf(s, Test(_)) == \A i \in 1..Len(s) : Test(s[i])

\* two or more non-empty alphanumeric groups with single dashes between them
IsDashSeparatedGroups(groups) ==
    Len(groups) >= 2 /\ \A i \in 1..Len(groups) : groups[i] # <<>> /\ AllOf(groups[i], IsAlnum)

IsSkuTail(c) == IsAlnum(c) \/ c \in {".", "_", "-"}

\* the rule table, first match wins
RuleOf(s, groups) ==
    IF s = <<>> THEN [type |-> "unknown", confidence |-> [n |-> 0, d |-> 1]]
    ELSE IF Len(s) = 24 /\ AllOf(s, IsHexDigit)
    THEN [type |-> "id", confidence |-> [n |-> 1, d |-> 1]]
    ELSE IF Len(s) \in {8, 12, 13, 14} /\ AllOf(s, IsDigit)
    THEN [type |-> "gtin", confidence |-> [n |-> 19, d |-> 20]]
    ELSE IF \E i \in 1..Len(s) : IsSpace(s[i])
    THEN [type |-> "label", confidence |-> [n |-> 9, d |-> 10]]
    ELSE IF IsDashSeparatedGroups(groups)
            /\ ~(Len(groups[1]) >= 3 /\ AllOf(groups[1], IsLetter))
    THEN [type |-> "mpn", confidence |-> [n |-> 4, d |-> 5]]
    ELSE IF IsAlnum(s[1]) /\ AllOf(Tail(s), IsSkuTail)
    THEN [type |-> "sku", confidence |-> [n |-> 7, d |-> 10]]
    ELSE [type |-> "unknown", confidence |-> [n |-> 0, d |-> 1]]

Detected == pure.fn = "detectIdentifierType"

\* C11: detectIdentifierType returns, for the trimmed input, the type and the
\* fixed confidence of the first rule that matches: id/1.0, gtin/0.95,
\* label/0.9, mpn/0.8, sku/0.7, and unknown/0 for anything else and for empty
\* or whitespace-only input.
C11_FirstMatchingRuleWins ==
    Detected => pure.result = RuleOf(trim(pure.raw), SplitOnDash(trim(pure.raw), <<>>, <<>>))

\* LMI-PD041828SI: dashed groups behind a vendor prefix are a SKU
C11_Witness ==
    /\ Detected
    /\ pure.raw = <<"L", "M", "I", "-", "P", "D", "0", "4", "1", "8", "2", "8", "S", "I">>
    /\ pure.result.type = "sku"

\* C12: a non-empty identifier of letters and digits only that is neither 24
\* hexadecimal characters nor 8, 12, 13 or 14 digits is sku/0.7, and detection
\* never returns mno.
C12_AlphanumericIsSkuNeverMno ==
    Detected =>
        /\ pure.result.type # "mno"
        /\ (/\ pure.raw # <<>>
            /\ AllOf(pure.raw, IsAlnum)
            /\ ~(Len(pure.raw) = 24 /\ AllOf(pure.raw, IsHexDigit))
            /\ ~(Len(pure.raw) \in {8, 12, 13, 14} /\ AllOf(pure.raw, IsDigit)))
           => pure.result = [type |-> "sku", confidence |-> [n |-> 7, d |-> 10]]

\* seven digits and a letter: the only rule left for it is the SKU rule
C12_Witness ==
    /\ Detected
    /\ pure.raw = Repeat("1", 7) \o <<"a">>
    /\ pure.result.type = "sku"

-----------------------------------------------------------------------------
(* Further properties of the lookup engine *)

NoAttributeFields == \A i \in 1..Len(cfg.searchFields) : ~IsAttributeField(cfg.searchFields[i])

\* the request carries a filter `field eq value` on the one field given
HasEqFilterOn(req, field) ==
    \E g \in 1..Len(req.filters) : \E f \in 1..Len(req.filters[g]) :
        req.filters[g][f].operator = "eq" /\ req.filters[g][f].field = <<field>>

\* a findByIdentifier invocation that ran the search stages to its return
Searched(c) ==
    /\ calls[c].op = "findByIdentifier"
    /\ Returned(c)
    /\ ~calls[c].fromCache

\* C13: with resolved type mpn and no attributes.* field among the search
\* fields, findByIdentifier still issues an equality search on attributes.mpn.
C13_DefaultMpnFieldSearched ==
    \A c \in Callers :
        (Searched(c) /\ calls[c].type = "mpn" /\ NoAttributeFields) =>
            \E i \in 1..Len(calls[c].issued) :
                HasEqFilterOn(calls[c].issued[i], <<"attributes", "mpn">>)

\* an mpn lookup over sku, label, gtin that went through the text and the broad
\* search and returned
C13_Witness ==
    \E c \in Callers :
        /\ Searched(c) /\ calls[c].type = "mpn" /\ NoAttributeFields
        /\ Len(calls[c].issued) = 2
        /\ calls[c].issued[2].tag = <<"broad_like_search">>

-----------------------------------------------------------------------------
(* Further properties of the hydrators *)

\* the caller's filter intersected with the fixed list, or the whole list
TargetSet(relationshipFilter) ==
    IF relationshipFilter = Undefined THEN Elements(REL_FIELDS)
    ELSE Elements(relationshipFilter.v) \cap Elements(REL_FIELDS)

\* C14: hydrateRelationships returns every field outside the target set (the
\* filter intersected with replaces, includes, modules, has_optional_accessory,
\* or that whole list without a filter) exactly as it was in the product.
C14_FieldsOutsideTargetSetUnchanged ==
    (hyd.op = "hydrateRelationships" /\ hyd.pc = "done") =>
        /\ DOMAIN hyd.out = DOMAIN hyd.product
        /\ \A f \in DOMAIN hyd.product :
              f \notin TargetSet(hyd.filter) => hyd.out[f] = hyd.product[f]

\* filter [includes]: includes was rebuilt, replaces still holds its raw ID
C14_Witness ==
    /\ hyd.op = "hydrateRelationships" /\ hyd.pc = "done"
    /\ hyd.filter = Arr(<<"includes">>)
    /\ hyd.requests # <<>>
    /\ hyd.out.includes # hyd.product.includes
    /\ hyd.product.replaces = Arr(<<IdZ>>)
    /\ hyd.out.replaces = Arr(<<IdZ>>)

-----------------------------------------------------------------------------
(* Further properties of identifier.ts *)

Compared == pure.fn = "calculateSimilarity"

\* C15: calculateSimilarity(a, a) is 1.0 for every non-empty string a.
C15_SelfSimilarityIsOne ==
    (Compared /\ pure.a = pure.b /\ pure.a # <<>>) => pure.result = [n |-> 1, d |-> 1]

\* a string of a dash alone, compared with itself
C15_Witness ==
    /\ Compared
    /\ pure.a = <<"-">> /\ pure.b = <<"-">>
    /\ pure.result = [n |-> 0, d |-> 1]

-----------------------------------------------------------------------------
(* Properties of the matches *)

InUnitInterval(q) == 0 <= q.n /\ q.d > 0 /\ q.n <= q.d

AllInUnitInterval(ms) == \A i \in 1..Len(ms) : InUnitInterval(ms[i].confidence)

\* C16: every Match of findByIdentifier and of findProducts, collected or
\* returned, has a confidence between 0 and 1 inclusive.
C16_ConfidenceInUnitInterval ==
    \A c \in Callers :
        /\ AllInUnitInterval(calls[c].matches)
        /\ AllInUnitInterval(calls[c].result.matches)
        /\ calls[c].result.selected # NoMatch =>
              InUnitInterval(calls[c].result.selected.confidence)

\* a returned match scored by similarity, strictly between 0 and 1
C16_Witness ==
    \E c \in Callers :
        /\ Returned(c)
        /\ \E i \in 1..Len(calls[c].result.matches) :
              /\ calls[c].result.matches[i].reason = "similarity_match"
              /\ calls[c].result.matches[i].confidence = [n |-> 4, d |-> 5]

-----------------------------------------------------------------------------
(* Properties of the worker *)

Fetched == pure.fn = "fetch"

\* POST /mcp with one JSON-RPC request and none of the three credential headers
McpWithoutCredentials ==
    /\ Fetched
    /\ pure.request.method = "POST" /\ pure.request.pathname = "/mcp"
    /\ pure.request.body.kind = "single" /\ pure.request.body.items[1].isRequest
    /\ pure.request.apiKey = Null /\ pure.request.apiPassword = Null
    /\ pure.request.authorization = Null

\* C17: a POST /mcp request without Plytix credentials is answered with status
\* 401 whatever its JSON-RPC method, initialize included.
C17_NoCredentialsIs401 == McpWithoutCredentials => pure.status = 401

\* initialize without credentials, answered 200
C17_Witness ==
    /\ McpWithoutCredentials
    /\ pure.request.body.items[1].method = "initialize"
    /\ pure.status = 200

-----------------------------------------------------------------------------
(* Properties of the stage order *)

Issued(c, tag) == \E i \in 1..Len(calls[c].issued) : calls[c].issued[i].tag = tag

\* every match collected so far came from a search with one of the tags
MatchesOnlyFrom(c, fields) ==
    \A i \in 1..Len(calls[c].matches) : calls[c].matches[i].matchedField \in fields

\* C18: the text search is issued only when no earlier stage contributed a
\* match, and the broad LIKE search only when the text search contributed none
\* either: once a stage has contributed a match no later fallback is issued.
C18_FallbacksOnlyAfterEmptyStages ==
    \A c \in Callers :
        (calls[c].op = "findByIdentifier" /\ ~calls[c].fromCache) =>
            /\ Issued(c, <<"text_search_multi">>) =>
                  MatchesOnlyFrom(c, {"text_search_multi", "broad_like_search"})
            /\ Issued(c, <<"broad_like_search">>) =>
                  MatchesOnlyFrom(c, {"broad_like_search"})

\* two exact searches found nothing, the text search found two records, and
\* the lookup returned without a broad search
C18_Witness ==
    \E c \in Callers :
        /\ Searched(c)
        /\ Len(calls[c].issued) = 3
        /\ calls[c].issued[1].tag = <<"attributes", "mpn_eq">>
        /\ calls[c].issued[3].tag = <<"text_search_multi">>
        /\ Len(calls[c].matches) = 2
        /\ ~Issued(c, <<"broad_like_search">>)

\* the exact-match requests of a call, in the order they were issued
ExactIssued(c) ==
    SelectSeq(calls[c].issued,
              LAMBDA req : req.kind = "searchProducts"
                           /\ req.tag \notin {<<"text_search_multi">>, <<"broad_like_search">>})

\* the place of the field an exact-match request filters on among the search fields
PlaceOf(req) ==
    CHOOSE j \in 1..Len(cfg.searchFields) : <<cfg.searchFields[j]>> = req.filters[1][1].field

\* C19: the exact-match searches of a lookup are issued in the order of the
\* configured search fields, and after one that returned a record scored 0.99
\* or higher no further exact-match search is issued.
C19_ExactSearchesInOrderUntilHighConfidence ==
    \A c \in Callers :
        (calls[c].op = "findByIdentifier" /\ ~calls[c].fromCache) =>
            LET exact == ExactIssued(c) IN
            /\ \A k \in 1..Len(exact) :
                  \E j \in 1..Len(cfg.searchFields) :
                      <<cfg.searchFields[j]>> = exact[k].filters[1][1].field
            /\ \A k \in 1..(Len(exact) - 1) : PlaceOf(exact[k]) < PlaceOf(exact[k + 1])
            /\ \A k \in 1..Len(exact) :
                  (\E i \in 1..Len(calls[c].matches) :
                      /\ calls[c].matches[i].matchedField = JoinDot(exact[k].tag)
                      /\ 99 * calls[c].matches[i].confidence.d
                            <= 100 * calls[c].matches[i].confidence.n)
                  => k = Len(exact)

\* the first of two exact searches returned an exact match and the lookup
\* returned after that one request
C19_Witness ==
    \E c \in Callers :
        /\ Searched(c)
        /\ Len(calls[c].exactSearches) = 2
        /\ Len(calls[c].issued) = 1
        /\ calls[c].issued[1].tag = <<"attributes", "mpn_eq">>
        /\ calls[c].matches[1].confidence = [n |-> 1, d |-> 1]

\* the direct fetch of the call was answered, with no record
DirectFetchFoundNothing(c) ==
    /\ calls[c].op = "findByIdentifier" /\ ~calls[c].fromCache
    /\ calls[c].type = "id"
    /\ calls[c].stage # "direct"
    /\ calls[c].issued # <<>>
    /\ calls[c].issued[1].kind = "getProduct"
    /\ calls[c].issued[1] \in DOMAIN repoTable
    /\ repoTable[calls[c].issued[1]] = [ok |-> TRUE, rows |-> <<>>]

\* C20: a direct fetch by ID that returns no record is an empty result, not a
\* failure: nothing is recorded as failed, the lookup goes on to the search
\* stages and returns their matches, ranked.
C20_EmptyDirectFetchFallsThrough ==
    \A c \in Callers :
        DirectFetchFoundNothing(c) =>
            /\ ~Has(calls[c].failed, "direct_id_lookup")
            /\ ~Has(calls[c].plan, "direct_id_lookup_failed")
            /\ calls[c].pc \in {"await", "done"}
            /\ Len(calls[c].issued) >= 2
            /\ calls[c].issued[2].kind = "searchProducts"
            /\ Returned(c) =>
                  /\ calls[c].stage = "finished"
                  /\ calls[c].result.matches = calls[c].matches
                  /\ NonIncreasing(calls[c].result.matches)
                  /\ \A i \in 1..Len(calls[c].matches) :
                        calls[c].matches[i].matchedField # "id"

\* the ID was not found, the text search found two records, and they were
\* returned in rank order
C20_Witness ==
    \E c \in Callers :
        /\ DirectFetchFoundNothing(c)
        /\ Returned(c)
        /\ Len(calls[c].result.matches) = 2
        /\ RatLess(calls[c].result.matches[2].confidence, calls[c].result.matches[1].confidence)

-----------------------------------------------------------------------------
(* Properties of the requests of one lookup *)

\* the step starts a new invocation for the caller
Starts(c) == calls[c].pc \in {"idle", "done"} /\ calls'[c] # calls[c]

\* the step issues a request for the caller's invocation
Issues(c) ==
    IF Starts(c) THEN calls'[c].issued # <<>>
    ELSE Len(calls'[c].issued) > Len(calls[c].issued)

\* a match scored 0.99 or higher is among those collected
HasHighConfidence(ms) ==
    \E i \in 1..Len(ms) : 99 * ms[i].confidence.d <= 100 * ms[i].confidence.n

\* C21: within one findByIdentifier call at most one repository request is
\* outstanding: a step issues at most one request, a request after the first
\* is issued only in the step in which the previous one returned or failed, and
\* none is issued for a stage the gating rules skip (text and broad only with
\* no match collected, an exact search only with no match of 0.99 or higher).
C21_OneRequestAtATime ==
    [][\A c \in AllCallers :
        calls'[c].op = "findByIdentifier" =>
            LET before == calls[c]
                after  == calls'[c]
                carried == IF Starts(c) THEN <<>> ELSE before.issued
            IN  /\ Len(after.issued) <= Len(carried) + 1
                /\ SubSeq(after.issued, 1, Len(carried)) = carried
                /\ (after.pc = "await") <=> (after.pending # NoRequest)
                /\ Issues(c) =>
                    /\ after.pc = "await"
                    /\ after.pending = after.issued[Len(after.issued)]
                    /\ ~Starts(c) =>
                        /\ before.pc = "await"
                        /\ before.pending = before.issued[Len(before.issued)]
                    /\ after.stage \in {"text", "broad"} => after.matches = <<>>
                    /\ after.stage = "exact" => ~HasHighConfidence(after.matches)
                /\ (~Issues(c) /\ ~Starts(c)) => after.pc # "await" \/ after = before]_vars

\* the third request of a lookup is outstanding, the two before it have
\* returned or failed
C21_Witness ==
    \E c \in Callers :
        /\ calls[c].op = "findByIdentifier"
        /\ calls[c].pc = "await"
        /\ Len(calls[c].issued) = 3
        /\ calls[c].pending = calls[c].issued[3]
        /\ calls[c].pending.tag = <<"text_search_multi">>

-----------------------------------------------------------------------------
(* The lookup engine with a cache at its capacity *)

\* the lookup in which every stage finds nothing
RECURSIVE FindsNothing(_)
FindsNothing(st) == IF st.pc = "await" THEN FindsNothing(OnSettled(st, Rows(<<>>))) ELSE st

\* identifiers of earlier lookups: "F001", "F002", ...
EarlierIdentifier(i) ==
    <<"F", ToString(i \div 100), ToString((i \div 10) % 10), ToString(i % 10)>>

\* the cache after n lookups of different identifiers at time t, none of which
\* found anything
CacheAfter(n, limit, t) ==
    LET key(i)   == getCacheKey(EarlierIdentifier(i), "undefined", limit)
        entry(i) == [result |-> FindsNothing(DirectStage(
                                   StartLookup(cfg, EarlierIdentifier(i), "undefined", limit, t))).result,
                     timestamp |-> t, ttl |-> cfg.cacheTtlMs]
    IN  [k \in {key(i) : i \in 1..n} |-> entry(CHOOSE i \in 1..n : key(i) = k)]

EarlierLookups == {CacheCapacity - 1, CacheCapacity}

InitFull ==
    /\ cfg \in [cacheEnabled : {TRUE}, searchFields : {DEFAULT_SEARCH_FIELDS},
                pageSize : {5}, cacheTtlMs : {CacheTtlTicks}]
    /\ cache \in {CacheAfter(n, 2, 0) : n \in EarlierLookups}
    /\ now = 0
    /\ calls = [c \in AllCallers |-> IdleCall]
    /\ lookups = 0
    /\ callers = {"c1"}
    /\ repoMode = "free"
    /\ repoTable = EmptyMap
    /\ hyd = IdleHydration
    /\ pure = NoCall

SpecFull == InitFull /\ [][Next]_vars

-----------------------------------------------------------------------------
(* Properties of the cache sweep *)

\* the step in which the caller's findByIdentifier writes its result and returns
WritesCache(c) ==
    /\ cfg.cacheEnabled
    /\ calls[c].pc = "await"
    /\ calls[c].op = "findByIdentifier"
    /\ calls'[c].pc = "done"

PastTtl(entry) == now > entry.timestamp + entry.ttl

\* C22: a cache write that leaves more than 100 entries is followed by one
\* sweep, after which no expired entry remains and every unexpired entry is
\* still there, unchanged, however many they are.
C22_SweepRemovesExactlyTheExpired ==
    [][\A c \in AllCallers :
        (WritesCache(c)
            /\ Cardinality(DOMAIN cache \cup {calls[c].cacheKey}) > CacheCapacity) =>
            /\ calls[c].cacheKey \in DOMAIN cache'
            /\ cache'[calls[c].cacheKey].result = calls'[c].result
            /\ \A k \in DOMAIN cache' : ~PastTtl(cache'[k])
            /\ \A k \in DOMAIN cache \ {calls[c].cacheKey} :
                  ~PastTtl(cache[k]) => (k \in DOMAIN cache' /\ cache'[k] = cache[k])]_vars

\* a write swept the expired entries of the earlier lookups away and kept the
\* unexpired entry of the lookup before it
C22_Witness ==
    /\ Cardinality(DOMAIN cache) = 2
    /\ \E k \in DOMAIN cache : cache[k].timestamp < now /\ ~PastTtl(cache[k])
    /\ \E k \in DOMAIN cache : cache[k].timestamp = now

\* more than 100 entries, none of them expired, are in the cache
MoreThanCapacityUnexpired ==
    /\ Cardinality(DOMAIN cache) > CacheCapacity
    /\ \A k \in DOMAIN cache : ~PastTtl(cache[k])

-----------------------------------------------------------------------------
(* Properties of cached results *)

\* the step enters findByIdentifier for the caller
EntersLookup(c) ==
    /\ lookups' = lookups + 1
    /\ calls'[c] # calls[c]
    /\ calls'[c].op = "findByIdentifier"

\* the entry of the key is in the cache and within its ttl
Fresh(key) ==
    /\ key \in DOMAIN cache
    /\ now <= cache[key].timestamp + cache[key].ttl

\* C23: with the cache enabled, a findByIdentifier call that was not served
\* from the cache stores its result under its key in the step in which it
\* returns, whatever the result holds; a call whose key has an entry within
\* its ttl returns that entry's result, plan included, issues no repository
\* request and leaves the cache as it is.
C23_EveryResultIsCachedAndServed ==
    [][\A c \in AllCallers :
        /\ WritesCache(c) =>
            /\ calls'[c].cacheKey \in DOMAIN cache'
            /\ cache'[calls'[c].cacheKey] =
                  [result |-> calls'[c].result, timestamp |-> now, ttl |-> cfg.cacheTtlMs]
            /\ calls'[c].result.plan = calls'[c].plan
        /\ (cfg.cacheEnabled /\ EntersLookup(c) /\ Fresh(calls'[c].cacheKey)) =>
            /\ calls'[c].pc = "done"
            /\ calls'[c].fromCache
            /\ calls'[c].result = cache[calls'[c].cacheKey].result
            /\ calls'[c].issued = <<>>
            /\ cache' = cache]_vars

\* a repeated lookup was served the stored result of one whose text and broad
\* searches failed: no match, the *_failed entries in the plan, no request issued
C23_Witness ==
    \E c \in Callers :
        /\ Returned(c) /\ calls[c].fromCache
        /\ calls[c].issued = <<>>
        /\ calls[c].result.matches = <<>>
        /\ calls[c].result.selected = NoMatch
        /\ Has(calls[c].result.plan, "text_search_multi_failed")
        /\ Has(calls[c].result.plan, "broad_like_search_failed")

-----------------------------------------------------------------------------
(* The lookup engine called again while a lookup is suspended *)

InitOverlap ==
    /\ cfg \in [cacheEnabled : {TRUE}, searchFields : SearchFieldConfigs,
                pageSize : {5}, cacheTtlMs : {CacheTtlTicks}]
    /\ cache = EmptyMap
    /\ now = 0
    /\ calls = [c \in AllCallers |-> IdleCall]
    /\ lookups = 0
    /\ callers = AllCallers
    /\ repoMode = "free"
    /\ repoTable = EmptyMap
    /\ hyd = IdleHydration
    /\ pure = NoCall

\* both callers look the same identifier up, with the type left to detection
NextOverlap ==
    \/ \E c \in AllCallers, identifier \in Identifiers, limit \in Limits :
          FindByIdentifier(c, identifier, "undefined", limit)
    \/ \E c \in AllCallers : RepositoryAnswers(c)
    \/ Tick

SpecOverlap == InitOverlap /\ [][NextOverlap]_vars

-----------------------------------------------------------------------------
(* Properties of overlapping lookups *)

\* another caller's findByIdentifier with the same key is suspended on a
\* repository call
SuspendedTwin(c, key) ==
    \E d \in AllCallers \ {c} :
        /\ calls[d].op = "findByIdentifier"
        /\ calls[d].pc = "await"
        /\ calls[d].cacheKey = key

\* another caller's findByIdentifier with the same key has returned the result
\* the cache holds for the key
StoredByTwin(c, key) ==
    \E d \in AllCallers \ {c} :
        /\ calls[d].op = "findByIdentifier"
        /\ calls[d].pc = "done"
        /\ calls[d].cacheKey = key
        /\ key \in DOMAIN cache
        /\ cache[key].result = calls[d].result

\* C24: lookups are not coalesced. A findByIdentifier call entered while a
\* call with the same key is suspended and the key has no cache entry misses
\* the cache and issues a request of its own; and when a call returns after a
\* call with the same key has stored its result, the entry of the key becomes
\* the complete result of the call returning now.
C24_OverlappingLookupsAreNotCoalesced ==
    [][\A c \in AllCallers :
        /\ (EntersLookup(c) /\ SuspendedTwin(c, calls'[c].cacheKey)
                /\ calls'[c].cacheKey \notin DOMAIN cache) =>
            /\ ~calls'[c].fromCache
            /\ calls'[c].pc = "await"
            /\ Len(calls'[c].issued) = 1
            /\ calls'[c].pending = calls'[c].issued[1]
            /\ calls'[c].cacheKey \notin DOMAIN cache'
        /\ (WritesCache(c) /\ StoredByTwin(c, calls[c].cacheKey)) =>
            /\ cache'[calls[c].cacheKey].result = calls'[c].result
            /\ cache'[calls[c].cacheKey].timestamp = now
            /\ Len(calls'[c].issued) >= 1]_vars

\* two overlapping lookups of one key both searched and got different answers;
\* the cache holds the result of one of them, not the other's
C24_Witness ==
    /\ \A c \in AllCallers :
          /\ calls[c].op = "findByIdentifier" /\ Returned(c) /\ ~calls[c].fromCache
          /\ calls[c].issued # <<>>
    /\ now = 0
    /\ calls["c1"].cacheKey = calls["c2"].cacheKey
    /\ calls["c1"].result # calls["c2"].result
    /\ calls["c1"].result.matches # <<>>
    /\ calls["c1"].cacheKey \in DOMAIN cache
    /\ cache[calls["c1"].cacheKey].result = calls["c2"].result

-----------------------------------------------------------------------------
(* Calls of scoreMatch *)

MaxScoreLen == 3    \* longest identifier scored

ScoreAlphabet == {"a", "B", "-"}

ScoreStrings(n) == UNION { [1..k -> ScoreAlphabet] : k \in 0..n }

\* "ab12345678", and a SKU one character longer that starts with it
LongIdentifier == <<"a", "b", "1", "2", "3", "4", "5", "6", "7", "8">>

ScoreIdentifiers == ScoreStrings(MaxScoreLen) \cup {LongIdentifier}

\* records with or without a SKU, with or without an attribute, which may be
\* a number
ScoreRecords ==
    { Rec(<<"p">>, sku, attrs) :
        sku \in {Undefined} \cup {Str(s) : s \in ScoreStrings(MaxScoreLen - 1)},
        attrs \in {<<>>, <<Attr("weight", Num(7))>>}
                    \cup {<<Attr("mpn", Str(s))>> : s \in ScoreStrings(MaxScoreLen - 2)} }
    \cup { Rec(<<"p">>, Str(LongIdentifier \o <<"X">>), <<>>),
           Rec(<<"p">>, Str(<<"X">> \o LongIdentifier), <<Attr("mpn", Str(<<"a", "b">>))>>) }

ScoreTags == { <<"sku_eq">>, <<"attributes", "mpn">> }

ScoreMatch(identifier, record, matchedField) ==
    /\ pure' = [fn |-> "scoreMatch", identifier |-> identifier, record |-> record,
                matchedField |-> matchedField,
                result |-> scoreMatch(identifier, record, matchedField)]
    /\ UNCHANGED <<lookupVars, hyd>>

NextScore ==
    NotCalled /\ \E identifier \in ScoreIdentifiers, record \in ScoreRecords,
                    matchedField \in ScoreTags : ScoreMatch(identifier, record, matchedField)

SpecScore == InitIdentifier /\ [][NextScore]_vars

-----------------------------------------------------------------------------
(* Properties of scoreMatch *)

Scored == pure.fn = "scoreMatch"

\* the confidences the rules give the candidate value: 0.9 for a prefix either
\* way, 0.75 for containment either way, the similarity when above 0.6
RuleValues(identifier, value) ==
    LET idNorm == normalize(identifier)
        valueNorm == normalize(value)
        similarity == calculateSimilarity(identifier, value)
    IN  (IF startsWith(valueNorm, idNorm) \/ startsWith(idNorm, valueNorm)
         THEN {Rat(9, 10)} ELSE {})
        \cup (IF includes(valueNorm, idNorm) \/ includes(idNorm, valueNorm)
              THEN {Rat(3, 4)} ELSE {})
        \cup (IF RatLess(Rat(6, 10), similarity) THEN {similarity} ELSE {})

\* C25: scoreMatch gives 1.0 and normalized_exact_match when some candidate
\* value of the record equals the identifier after normalization; otherwise
\* the largest confidence any rule gives any candidate value (0.9 prefix, 0.75
\* containment, the similarity above 0.6), and 0.1 when no rule applies.
C25_ScoreIsExactOrBestRuleOrFloor ==
    Scored =>
        LET values == Candidates(pure.record, pure.matchedField)
            exact  == \E i \in 1..Len(values) :
                          normalize(values[i]) = normalize(pure.identifier)
            given  == UNION { RuleValues(pure.identifier, values[i]) : i \in 1..Len(values) }
        IN  IF exact
            THEN pure.result = [confidence |-> One, reason |-> "normalized_exact_match"]
            ELSE IF given = {}
            THEN pure.result.confidence = Rat(1, 10)
            ELSE /\ pure.result.confidence \in given
                 /\ \A q \in given : RatLeq(q, pure.result.confidence)

\* the SKU starts with the identifier (0.9) and contains it (0.75), and the
\* similarity 10/11 is the largest of the three
C25_Witness ==
    /\ Scored
    /\ pure.identifier = LongIdentifier
    /\ pure.record.sku = Str(LongIdentifier \o <<"X">>)
    /\ pure.result = [confidence |-> Rat(10, 11), reason |-> "similarity_match"]

-----------------------------------------------------------------------------
(* Properties of the collected matches *)

\* the rows the repository returned to the search requests, each with the tag
\* of its request
RECURSIVE RowsReturned(_)
RowsReturned(issued) ==
    IF issued = <<>> THEN <<>>
    ELSE LET req == Head(issued)
             rows == IF req.kind = "searchProducts" /\ req \in DOMAIN repoTable
                        /\ repoTable[req].ok
                     THEN repoTable[req].rows ELSE <<>>
         IN  [i \in 1..Len(rows) |-> [tag |-> JoinDot(req.tag), raw |-> rows[i]]]
                 \o RowsReturned(Tail(issued))

Count(seq, x) == Cardinality({i \in 1..Len(seq) : seq[i] = x})

\* C26: matches are not merged by product id: a result computed by the search
\* stages holds exactly one match per row returned to each of its searches, a
\* product returned to two searches twice, and the selection rule counts both
\* (two top matches of one product and equal confidence select nothing).
C26_OneMatchPerReturnedRow ==
    \A c \in Callers :
        (Searched(c) /\ calls[c].stage = "finished") =>
            LET got  == RowsReturned(calls[c].issued)
                ms   == calls[c].result.matches
                have == [i \in 1..Len(ms) |-> [tag |-> ms[i].matchedField, raw |-> ms[i].raw]]
            IN  /\ Len(have) = Len(got)
                /\ \A i \in 1..Len(got) : Count(have, got[i]) = Count(got, got[i])
                /\ (Len(ms) >= 2 /\ ms[1].confidence = ms[2].confidence) =>
                      calls[c].result.selected = NoMatch

\* both exact searches returned the same two products: four matches, the top
\* two of them the same product, and nothing selected
C26_Witness ==
    \E c \in Callers :
        /\ Searched(c) /\ calls[c].stage = "finished"
        /\ Len(calls[c].issued) = 2
        /\ Len(calls[c].result.matches) = 4
        /\ calls[c].result.matches[1].id = calls[c].result.matches[2].id
        /\ calls[c].result.matches[1].matchedField # calls[c].result.matches[2].matchedField
        /\ calls[c].result.selected = NoMatch

-----------------------------------------------------------------------------
(* Properties of the hierarchy levels *)

HierarchyCalled == hyd.op = "hydrateHierarchy"

\* the levels hydrateHierarchy resolved: the keys of targets
Resolved == {hyd.targets[i].key : i \in 1..Len(hyd.targets)}

\* the product's level is one of the numbers
LevelIn(numbers) == \E n \in numbers : hyd.level = Num(n)

\* C27: hydrateHierarchy resolves family only for a product of level 1, 2, 3
\* or 4, parent only for level 3 or 4, variant only for level 4; brand is
\* resolved exactly when brand inclusion is on, at any level.
C27_LevelsResolvedOnlyWhenLevelQualifies ==
    HierarchyCalled =>
        /\ "family" \in Resolved => LevelIn({1, 2, 3, 4})
        /\ "parent" \in Resolved => LevelIn({3, 4})
        /\ "variant" \in Resolved => LevelIn({4})
        /\ ("brand" \in Resolved) <=> hyd.includeBrand
        /\ hyd.pc = "done" => DOMAIN hyd.hierarchy = Resolved \cup {"level"}

\* a level-2 product, all levels asked for, brand included: family and brand
\* are resolved, parent and variant are not
C27_Witness ==
    /\ HierarchyCalled /\ hyd.pc = "done"
    /\ hyd.level = Num(2)
    /\ hyd.filter = Undefined
    /\ hyd.includeBrand
    /\ Resolved = {"family", "brand"}
    /\ hyd.hierarchy["family"] # Null

\* brand is resolved for a product with no level at all
BrandWithoutLevel ==
    /\ HierarchyCalled /\ hyd.pc = "done"
    /\ hyd.level = Null
    /\ Resolved = {"brand"}
    /\ hyd.hierarchy["brand"] # Null

-----------------------------------------------------------------------------
(* Properties of the target SKUs *)

RECURSIVE JoinDash(_)
JoinDash(parts) ==
    IF Len(parts) = 1 THEN parts[1] ELSE parts[1] \o <<"-">> \o JoinDash(Tail(parts))

\* what the first capture group of the pattern holds on s, told by the parts
\* of s between its dashes: the first two parts for the family default, all
\* but the last part for the parent and variant default, the first part for
\* the first-segment pattern; the parts the pattern wants must not be empty
CaptureOf(pattern, s) ==
    LET parts == SplitOnDash(s, <<>>, <<>>)
        n     == Len(parts)
    IN  CASE pattern = FamilyPattern ->
                IF n >= 2 /\ parts[1] # <<>> /\ parts[2] # <<>>
                THEN Str(JoinDash(SubSeq(parts, 1, 2))) ELSE Null
          [] pattern = ParentPattern ->
                IF n >= 2 /\ parts[n] # <<>>
                THEN Str(JoinDash(SubSeq(parts, 1, n - 1))) ELSE Null
          [] pattern = FirstSegmentPattern ->
                IF parts[1] # <<>> THEN Str(parts[1]) ELSE Null

\* the attribute key and the regular expression configured for the level
LevelKey(name, env) ==
    CASE name = "family"  -> env.FAMILY_SKU_ATTR_SLUG
      [] name = "parent"  -> OrElse(env.PARENT_SKU_ATTR_SLUG, "parent_sku")
      [] name = "variant" -> OrElse(env.VARIANT_SKU_ATTR_SLUG, "variant_sku")

LevelPattern(name, env) ==
    CASE name = "family"  -> rx(env.FAMILY_SKU_REGEX, FamilyPattern)
      [] name = "parent"  -> rx(env.PARENT_SKU_REGEX, ParentPattern)
      [] name = "variant" -> rx(env.VARIANT_SKU_REGEX, ParentPattern)

\* the product's own SKU: the field, or the attribute of that name
OwnSku(product) ==
    IF product.sku # Undefined THEN product.sku ELSE AttrValue(product, "sku")

\* C28: the target SKU of a resolved family, parent or variant level is the
\* level's configured attribute when the product has it as a string, and
\* otherwise the first capture group of the level's pattern on the product's
\* own SKU; it is null when the SKU is missing or the pattern does not match.
C28_TargetIsAttributeElseCapture ==
    HierarchyCalled =>
        \A i \in 1..Len(hyd.targets) :
            hyd.targets[i].key \in AllLevels =>
                LET name == hyd.targets[i].key
                    attr == AttrValue(hyd.product, LevelKey(name, hyd.env))
                    sku  == OwnSku(hyd.product)
                IN  hyd.targets[i].value =
                        IF IsString(attr) THEN attr
                        ELSE IF ~IsString(sku) \/ sku.v = <<>> THEN Null
                        ELSE CaptureOf(LevelPattern(name, hyd.env), sku.v)

\* a level-4 product "A-B-C-D" with a parent pointer: the parent target is the
\* pointer, family and variant are captured from the SKU
C28_Witness ==
    /\ HierarchyCalled
    /\ hyd.env = DefaultEnv
    /\ hyd.targets = << [key |-> "family", value |-> Str(<<"A", "-", "B">>)],
                        [key |-> "parent", value |-> Chars("P", "-", "1")],
                        [key |-> "variant", value |-> Str(<<"A", "-", "B", "-", "C">>)] >>

\* a resolved level with no target: the SKU has a dash and the pattern does
\* not match it
NoTargetOnUnmatchedSku ==
    /\ HierarchyCalled
    /\ hyd.product.sku = Str(<<"A", "-">>)
    /\ \E i \in 1..Len(hyd.targets) :
          hyd.targets[i].key = "family" /\ hyd.targets[i].value = Null

-----------------------------------------------------------------------------
(* Properties of the configured patterns *)

\* the step is a call of hydrateHierarchy, up to its await or its return
CallsHierarchy == hyd.pc = "idle" /\ hyd'.op = "hydrateHierarchy"

\* the built-in pattern of the level
DefaultPattern(name) == IF name = "family" THEN FamilyPattern ELSE ParentPattern

\* the pattern string configured for the level, "" when none is
ConfiguredPattern(name, env) ==
    CASE name = "family"  -> env.FAMILY_SKU_REGEX
      [] name = "parent"  -> env.PARENT_SKU_REGEX
      [] name = "variant" -> env.VARIANT_SKU_REGEX

\* the target the call derived for the level
TargetOf(st, name) ==
    (CHOOSE e \in {st.targets[i] : i \in 1..Len(st.targets)} : e.key = name).value

\* C29: a call of hydrateHierarchy with a pattern configured that does not
\* compile does not fail on it: the call reaches its fetch or its return, and
\* a level with such a pattern and no string attribute gets the target the
\* built-in default pattern captures from the SKU (family ^([^-]+-[^-]+),
\* parent and variant ^(.*?)-[^-]+$).
C29_BrokenPatternFallsBackToDefault ==
    [][CallsHierarchy =>
        \A name \in AllLevels :
            ~Compiles(OrElse(ConfiguredPattern(name, hyd'.env), DefaultPattern(name))) =>
                /\ hyd'.pc \in {"await", "done"}
                /\ (name \in {hyd'.targets[i].key : i \in 1..Len(hyd'.targets)}
                      /\ ~IsString(AttrValue(hyd'.product, LevelKey(name, hyd'.env)))
                      /\ IsString(hyd'.product.sku)) =>
                        TargetOf(hyd', name) =
                            CaptureOf(DefaultPattern(name), hyd'.product.sku.v)]_vars

\* the family and variant patterns configured do not compile; a level-4
\* product "A-B-C-D" was hydrated with the defaults' captures as targets
C29_Witness ==
    /\ HierarchyCalled /\ hyd.pc = "done"
    /\ hyd.env.FAMILY_SKU_REGEX = BrokenPattern
    /\ hyd.env.VARIANT_SKU_REGEX = BrokenPattern
    /\ hyd.product.sku = Str(<<"A", "-", "B", "-", "C", "-", "D">>)
    /\ \E i \in 1..Len(hyd.targets) :
          /\ hyd.targets[i].key = "family"
          /\ hyd.targets[i].value = Str(<<"A", "-", "B">>)
    /\ \E i \in 1..Len(hyd.targets) :
          /\ hyd.targets[i].key = "variant"
          /\ hyd.targets[i].value = Str(<<"A", "-", "B", "-", "C">>)
    /\ hyd.hierarchy["variant"] # Null

-----------------------------------------------------------------------------
(* Properties of the levels asked for that the product's level rules out *)

\* the levels the call asked for
Asked ==
    IF hyd.filter = Undefined \/ hyd.filter.v = <<>> THEN AllLevels ELSE Elements(hyd.filter.v)

\* the levels asked for that the product's level does not qualify for
RuledOut == {name \in Asked : ~Qualifies(name, hyd.level)}

\* the SKUs the call aims at for levels other than those in names
AimedOutside(names) ==
    {hyd.targets[i].value : i \in {j \in 1..Len(hyd.targets) : hyd.targets[j].key \notin names}}

\* C30: a level the filter asks for that the product's level does not qualify
\* for (parent on a level-2 product, any level with no level attribute) is
\* left out of hierarchy, not set to null, and nothing is derived or fetched
\* for it: it has no target, and every SKU requested is the target of another
\* level.
C30_UnqualifiedLevelIsAbsent ==
    HierarchyCalled =>
        /\ \A name \in RuledOut :
              /\ name \notin Resolved
              /\ hyd.pc = "done" => name \notin DOMAIN hyd.hierarchy
        /\ \A r \in 1..Len(hyd.requests) :
              \A k \in 1..Len(hyd.requests[r]) :
                  hyd.requests[r][k] \in AimedOutside(RuledOut)

\* family, parent and variant asked of a level-2 product "A-B-C": one fetch,
\* of the family SKU alone; hierarchy has family and no parent or variant key
C30_Witness ==
    /\ HierarchyCalled /\ hyd.pc = "done"
    /\ hyd.level = Num(2)
    /\ hyd.filter = Undefined
    /\ ~hyd.includeBrand
    /\ hyd.product.sku = Str(<<"A", "-", "B", "-", "C">>)
    /\ hyd.requests = << <<Str(<<"A", "-", "B">>)>> >>
    /\ DOMAIN hyd.hierarchy = {"level", "family"}
    /\ hyd.hierarchy["family"] # Null

\* parent and variant asked of a product with no level attribute: nothing is
\* fetched and hierarchy holds the level alone
NothingForProductWithoutLevel ==
    /\ HierarchyCalled /\ hyd.pc = "done"
    /\ hyd.level = Null
    /\ hyd.filter = Arr(<<"parent", "variant">>)
    /\ hyd.requests = <<>>
    /\ DOMAIN hyd.hierarchy = {"level"}

====
